---------------------------- MODULE Spec2Model ----------------------------
(***************************************************************************)
(* A model of the incident-anchoring and synthesis pipeline of             *)
(* src/server.js: location extraction, topic tagging, two-pass anchoring,  *)
(* metrics and severity, the narrative summary, and the assembler          *)
(* fetchRealTimeIncidents with the catalogue of known incidents.           *)
(*                                                                         *)
(* Strings are TLA+ strings, handled character by character with Len,      *)
(* SubSeq and \o.  The regular expressions of the source are evaluated on  *)
(* the whitespace-separated words of a text.  Timestamps are whole         *)
(* minutes; a timestamp that Date cannot parse has ok = FALSE and its      *)
(* getTime() is NaN.  Confidences are percent.                             *)
(***************************************************************************)
EXTENDS Integers, Sequences, FiniteSets, TLC

VARIABLES
    (* anchorIncidentsToLocations, src/server.js:839-944 *)
    posts,          \* the batch handed to the anchoring engine
    incidents,      \* the clusters built so far
    processed,      \* ids of the posts that entered a cluster
    phase,          \* "pass1" | "pass2" | "filter" | "done" | "idle"
    cursor,         \* index of the next post of the running forEach
    anchored,       \* the returned clusters
    (* generateTLDR, src/server.js:444-578 *)
    tldrPosts,      \* the post set handed to the synthesizer
    tldrLocation,   \* the incident location handed to it
    tldr,           \* <<>> before the call, then <<[summary, citations]>>
    (* fetchRealTimeIncidents, src/server.js:1498-2018 *)
    pc,             \* "catalogue" | "custom" | "fetching" | "returned" | "thrown" | "idle"
    query,          \* the query argument
    entry,          \* index of the catalogue entry being fetched
    searchNo,       \* index of the entry's query in flight
    postsMap,       \* per catalogue entry: its posts so far, in insertion order
    hardcoded,      \* the catalogue incidents built so far
    cityTasks,      \* per city: the query in flight and allTweets so far
    policeTask,     \* per police query: whether it settled, and its tweets
    generalTasks,   \* per general query: whether it settled, and its posts
    livePosts,      \* the live posts delivered, before the engagement filter
    thrown,         \* the message of the Error thrown to the caller ("": none)
    result,         \* the returned incident list (<<>> until the return)
    (* Metrics & Scoring, src/server.js:415-441 and 581-627 *)
    scoredPosts,    \* the post sets handed to the scoring functions
    scores,         \* per run of the scoring step: the results for each post set
    (* extractPostLocation, src/server.js:732-836 *)
    locText,        \* the text of the post handed to the extractor
    located,        \* <<>> before the call, then <<[location, confidence]>>
    (* the forEach callbacks of fetchRealTimeIncidents, src/server.js:1526-1692, 1799-1977 *)
    incidentGroup,  \* the incident group handed to the callbacks
    pathIncidents   \* per path: <<>> before its callback, then <<its incidents array>>

anchorVars == <<posts, incidents, processed, phase, cursor, anchored>>

tldrVars == <<tldrPosts, tldrLocation, tldr>>

fetchVars ==
    <<pc, query, entry, searchNo, postsMap, hardcoded, cityTasks, policeTask, generalTasks,
      livePosts, thrown, result>>

scoreVars == <<scoredPosts, scores>>

locVars == <<locText, located>>

groupVars == <<incidentGroup, pathIncidents>>

vars == <<anchorVars, tldrVars, fetchVars, scoreVars, locVars, groupVars>>

\* The value of the variables of a function that is not running.
IdleAnchor ==
    /\ posts = <<>> /\ incidents = <<>> /\ processed = {}
    /\ phase = "idle" /\ cursor = 1 /\ anchored = <<>>

IdleTLDR == tldrPosts = <<>> /\ tldrLocation = "" /\ tldr = <<>>

IdleScore == scoredPosts = <<>> /\ scores = <<>>

IdleLoc == locText = "" /\ located = <<>>

IdleGroup == incidentGroup = <<>> /\ pathIncidents = <<>>

IdleFetch ==
    /\ pc = "idle" /\ query = "" /\ entry = 1 /\ searchNo = 1 /\ postsMap = <<>>
    /\ hardcoded = <<>> /\ cityTasks = <<>> /\ policeTask = <<>> /\ generalTasks = <<>>
    /\ livePosts = <<>> /\ thrown = "" /\ result = <<>>

---------------------------------------------------------------------------
(* Characters and strings *)

UpperLetters ==
    {"A", "B", "C", "D", "E", "F", "G", "H", "I", "J", "K", "L", "M", "N", "O", "P",
     "Q", "R", "S", "T", "U", "V", "W", "X", "Y", "Z"}

LowerLetters ==
    {"a", "b", "c", "d", "e", "f", "g", "h", "i", "j", "k", "l", "m", "n", "o", "p",
     "q", "r", "s", "t", "u", "v", "w", "x", "y", "z"}

Digits == {"0", "1", "2", "3", "4", "5", "6", "7", "8", "9"}

LowerOf ==
    [A |-> "a", B |-> "b", C |-> "c", D |-> "d", E |-> "e", F |-> "f", G |-> "g",
     H |-> "h", I |-> "i", J |-> "j", K |-> "k", L |-> "l", M |-> "m", N |-> "n",
     O |-> "o", P |-> "p", Q |-> "q", R |-> "r", S |-> "s", T |-> "t", U |-> "u",
     V |-> "v", W |-> "w", X |-> "x", Y |-> "y", Z |-> "z"]

CharAt(s, i) == SubSeq(s, i, i)

IsLetter(c) == c \in UpperLetters \/ c \in LowerLetters

LowerChar(c) == IF c \in UpperLetters THEN LowerOf[c] ELSE c

RECURSIVE LowerFrom(_, _)
LowerFrom(s, i) ==
    IF i > Len(s) THEN "" ELSE LowerChar(CharAt(s, i)) \o LowerFrom(s, i + 1)

\* String.prototype.toLowerCase
toLowerCase(s) == LowerFrom(s, 1)

\* hay.includes(needle)
Includes(hay, needle) ==
    \E i \in 0..(Len(hay) - Len(needle)) : SubSeq(hay, i + 1, i + Len(needle)) = needle

StartsWith(s, p) == Len(p) <= Len(s) /\ SubSeq(s, 1, Len(p)) = p

EndsWith(s, p) == Len(p) <= Len(s) /\ SubSeq(s, Len(s) - Len(p) + 1, Len(s)) = p

Max(S) == CHOOSE x \in S : \A y \in S : y <= x
Min(S) == CHOOSE x \in S : \A y \in S : x <= y

\* The whitespace-separated words of a text, in order.
RECURSIVE WordsFrom(_, _, _)
WordsFrom(s, i, word) ==
    IF i > Len(s) THEN (IF word = "" THEN <<>> ELSE <<word>>)
    ELSE IF CharAt(s, i) = " "
         THEN (IF word = "" THEN <<>> ELSE <<word>>) \o WordsFrom(s, i + 1, "")
         ELSE WordsFrom(s, i + 1, word \o CharAt(s, i))

Words(s) == WordsFrom(s, 1, "")

IsSpace(c) == c = " "

\* String.prototype.trim
Trim(s) ==
    LET inked == { i \in 1..Len(s) : ~IsSpace(CharAt(s, i)) }
    IN  IF inked = {} THEN "" ELSE SubSeq(s, Min(inked), Max(inked))

\* The length of the link that starts at character i: https?:\/\/[^\s]+ (0: none).
UrlAt(s, i) ==
    LET head == IF i + 7 <= Len(s) /\ SubSeq(s, i, i + 7) = "https://" THEN 8
                ELSE IF i + 6 <= Len(s) /\ SubSeq(s, i, i + 6) = "http://" THEN 7 ELSE 0
        stops == { j \in (i + head)..Len(s) : IsSpace(CharAt(s, j)) }
        end == IF stops = {} THEN Len(s) ELSE Min(stops) - 1
    IN  IF head = 0 \/ end < i + head THEN 0 ELSE end - i + 1

\* text.replace(/https?:\/\/[^\s]+/g, '') from character i on.
RECURSIVE StripUrlsFrom(_, _)
StripUrlsFrom(s, i) ==
    IF i > Len(s) THEN ""
    ELSE IF UrlAt(s, i) > 0 THEN StripUrlsFrom(s, i + UrlAt(s, i))
    ELSE CharAt(s, i) \o StripUrlsFrom(s, i + 1)

\* The words from..to of a word list as one string, single spaces between them.
RECURSIVE Join(_, _, _)
Join(ws, from, to) ==
    IF from > to THEN ""
    ELSE IF from = to THEN ws[from]
    ELSE ws[from] \o " " \o Join(ws, from + 1, to)

---------------------------------------------------------------------------
(* Topic Tagger: extractTopics, src/server.js:715-729 *)

TopicsOfText(postText) ==
    LET text == toLowerCase(postText)
    IN  (IF Includes(text, "shooting") \/ Includes(text, "shots fired")
            THEN {"shooting"} ELSE {})
        \cup (IF Includes(text, "active shooter") THEN {"active_shooter"} ELSE {})
        \cup (IF Includes(text, "arrest") THEN {"arrest"} ELSE {})
        \cup (IF Includes(text, "suspect") THEN {"suspect"} ELSE {})
        \cup (IF Includes(text, "victim") \/ Includes(text, "injured")
                 \/ Includes(text, "killed")
                 THEN {"casualties"} ELSE {})
        \cup (IF Includes(text, "evacuat") THEN {"evacuation"} ELSE {})
        \cup (IF Includes(text, "lockdown") THEN {"lockdown"} ELSE {})

---------------------------------------------------------------------------
(* Location Extractor: extractPostLocation, src/server.js:732-836 *)

\* The named-place catalogue in source order.
specificPlaces ==
    <<[name |-> "Westfield Valley Fair", priority |-> 1,
        keywords |-> <<"westfield valley fair", "valley fair mall", "valley fair shopping center">>],
       [name |-> "Stanford Shopping Center", priority |-> 1,
        keywords |-> <<"stanford shopping center", "stanford mall">>],
       [name |-> "Stanford University", priority |-> 1,
        keywords |-> <<"stanford university", "stanford campus">>],
       [name |-> "Hoover Tower", priority |-> 1,
        keywords |-> <<"hoover tower">>],
       [name |-> "Main Quad", priority |-> 1,
        keywords |-> <<"main quad">>],
       [name |-> "Green Library", priority |-> 1,
        keywords |-> <<"green library">>],
       [name |-> "Santana Row", priority |-> 1,
        keywords |-> <<"santana row">>],
       [name |-> "SAP Center", priority |-> 1,
        keywords |-> <<"sap center", "sap arena", "shark tank">>],
       [name |-> "Levi's Stadium", priority |-> 1,
        keywords |-> <<"levi's stadium", "levis stadium">>],
       [name |-> "Stanford Hospital", priority |-> 1,
        keywords |-> <<"stanford hospital", "stanford medical center">>],
       [name |-> "Valley Medical Center", priority |-> 1,
        keywords |-> <<"valley medical center", "vmc">>],
       [name |-> "Stanford", priority |-> 3,
        keywords |-> <<"stanford">>],
       [name |-> "Palo Alto", priority |-> 3,
        keywords |-> <<"palo alto">>],
       [name |-> "San Jose", priority |-> 3,
        keywords |-> <<"san jose">>],
       [name |-> "Menlo Park", priority |-> 3,
        keywords |-> <<"menlo park">>],
       [name |-> "Mountain View", priority |-> 3,
        keywords |-> <<"mountain view">>],
       [name |-> "Redwood City", priority |-> 3,
        keywords |-> <<"redwood city">>],
       [name |-> "East Palo Alto", priority |-> 3,
        keywords |-> <<"east palo alto">>],
       [name |-> "Santa Clara", priority |-> 3,
        keywords |-> <<"santa clara">>],
       [name |-> "Cupertino", priority |-> 3,
        keywords |-> <<"cupertino">>],
       [name |-> "Sunnyvale", priority |-> 3,
        keywords |-> <<"sunnyvale">>],
       [name |-> "Fremont", priority |-> 3,
        keywords |-> <<"fremont">>],
       [name |-> "Milpitas", priority |-> 3,
        keywords |-> <<"milpitas">>] >>

IsPriority1(place) == place.priority = 1
IsPriority2(place) == place.priority = 2
IsPriority3(place) == place.priority = 3

\* A table that is scanned with the cities before the venues.
placesCitiesFirst ==
    SelectSeq(specificPlaces, IsPriority3) \o SelectSeq(specificPlaces, IsPriority2)
        \o SelectSeq(specificPlaces, IsPriority1)

\* specificPlaces.sort((a, b) => a.priority - b.priority): a stable sort on 1..3.
sortedPlaces ==
    SelectSeq(specificPlaces, IsPriority1) \o SelectSeq(specificPlaces, IsPriority2)
        \o SelectSeq(specificPlaces, IsPriority3)

\* The first place of the sorted table one of whose keywords the text includes
\* (0 when there is none).
FirstPlace(textLower) ==
    LET hits == { i \in 1..Len(sortedPlaces) :
                    \E k \in 1..Len(sortedPlaces[i].keywords) :
                        Includes(textLower, sortedPlaces[i].keywords[k]) }
    IN  IF hits = {} THEN 0 ELSE Min(hits)

\* The number of letters a word starts with.
LetterRun(w) == Max({ k \in 0..Len(w) : \A i \in 1..k : IsLetter(CharAt(w, i)) })

\* The number of digits a word ends with.
DigitTail(w) == Max({ k \in 0..Len(w) : \A i \in (Len(w) - k + 1)..Len(w) : CharAt(w, i) \in Digits })

\* [A-Z][a-z]+ under the i flag, matching a whole word.
IsCap(w) == Len(w) >= 2 /\ LetterRun(w) = Len(w)

AllCap(ws, from, to) == \A j \in from..to : IsCap(ws[j])

\* A leading (?:at|in|...) has no word boundary before it: it matches the end of a word.
EndsWithPrep(w, preps) == \E q \in preps : EndsWith(toLowerCase(w), q)

\* The first alternative of a token list that a word starts with ("" if none):
\* no word boundary follows the alternation.
FirstTok(w, toks) ==
    LET hits == { k \in 1..Len(toks) : StartsWith(toLowerCase(w), toks[k]) }
    IN  IF hits = {} THEN "" ELSE toks[Min(hits)]

streetTypes ==
    <<"street", "st", "avenue", "ave", "road", "rd", "boulevard", "blvd", "drive", "dr",
      "way", "lane", "ln", "circle", "cir", "court", "ct", "place", "pl">>

\* What (?:Street|St|...)\.? takes of a word.
StreetCapture(w) ==
    LET n == Len(FirstTok(w, streetTypes))
    IN  IF n < Len(w) /\ CharAt(w, n + 1) = "." THEN SubSeq(w, 1, n + 1) ELSE SubSeq(w, 1, n)

\* Name(\s+Name)*\s+StreetType after the number word i: the index of the
\* street-type word the greedy name run ends before (0 when there is no match).
AddressEnd(ws, i) ==
    LET ends == { j \in (i + 2)..Len(ws) :
                    AllCap(ws, i + 1, j - 1) /\ FirstTok(ws[j], streetTypes) # "" }
    IN  IF ends = {} THEN 0 ELSE Max(ends)

AddressCapture(ws, i) ==
    LET j == AddressEnd(ws, i)
        w == ws[i]
    IN  SubSeq(w, Len(w) - DigitTail(w) + 1, Len(w)) \o " " \o Join(ws, i + 1, j - 1)
            \o " " \o StreetCapture(ws[j])

\* addressPatterns[0]: the address after at/on/near/in ("" when it does not match).
AddressPattern1(text) ==
    LET ws == Words(text)
        starts == { i \in 2..Len(ws) :
                      /\ EndsWithPrep(ws[i - 1], {"at", "on", "near", "in"})
                      /\ DigitTail(ws[i]) = Len(ws[i])
                      /\ AddressEnd(ws, i) # 0 }
    IN  IF starts = {} THEN "" ELSE AddressCapture(ws, Min(starts))

\* addressPatterns[1]: the address alone.
AddressPattern2(text) ==
    LET ws == Words(text)
        starts == { i \in 1..Len(ws) : DigitTail(ws[i]) > 0 /\ AddressEnd(ws, i) # 0 }
    IN  IF starts = {} THEN "" ELSE AddressCapture(ws, Min(starts))

\* Name(\s+Name)* from word k, whose first name starts at character c of that
\* word: a name is a run of two or more letters, and only a name that ends its
\* word can be followed by another.  "" when no name starts there.
RECURSIVE NamesFrom(_, _, _)
NamesFrom(ws, k, c) ==
    IF k > Len(ws) THEN ""
    ELSE LET rest == SubSeq(ws[k], c, Len(ws[k]))
             n == LetterRun(rest)
         IN  IF n < 2 THEN ""
             ELSE IF n = Len(rest) /\ NamesFrom(ws, k + 1, 1) # ""
                  THEN rest \o " " \o NamesFrom(ws, k + 1, 1)
                  ELSE SubSeq(rest, 1, n)

\* The city context after the street type `tok` of word j:
\* \.?(?:,?\s+(?:in|at|near)\s+)?Name(\s+Name)*.  The text taken from word j on,
\* "" when the context does not match.
ContextFrom(ws, j, tok) ==
    LET w == ws[j]
        n == Len(tok)
        dot == IF n < Len(w) /\ CharAt(w, n + 1) = "." THEN 1 ELSE 0
        rest == SubSeq(w, n + dot + 1, Len(w))
    IN  IF rest \in {"", ","} /\ j + 2 <= Len(ws)
            /\ toLowerCase(ws[j + 1]) \in {"in", "at", "near"}
            /\ NamesFrom(ws, j + 2, 1) # ""
        THEN w \o " " \o ws[j + 1] \o " " \o NamesFrom(ws, j + 2, 1)
        ELSE IF NamesFrom(ws, j, n + dot + 1) # ""
        THEN SubSeq(w, 1, n + dot) \o NamesFrom(ws, j, n + dot + 1)
        ELSE ""

\* The context of word j under the first street type, in the alternation's order,
\* with which it matches.
StreetContext(ws, j) ==
    LET hits == { k \in 1..Len(streetTypes) :
                    /\ StartsWith(toLowerCase(ws[j]), streetTypes[k])
                    /\ ContextFrom(ws, j, streetTypes[k]) # "" }
    IN  IF hits = {} THEN "" ELSE ContextFrom(ws, j, streetTypes[Min(hits)])

\* addressPatterns[2]: the address with its city context.
AddressPattern3(text) ==
    LET ws == Words(text)
        ends(i) == { j \in (i + 2)..Len(ws) :
                        AllCap(ws, i + 1, j - 1) /\ StreetContext(ws, j) # "" }
        starts == { i \in 1..Len(ws) : DigitTail(ws[i]) > 0 /\ ends(i) # {} }
    IN  IF starts = {} THEN ""
        ELSE LET i == Min(starts)
                 j == Max(ends(i))
                 w == ws[i]
             IN  SubSeq(w, Len(w) - DigitTail(w) + 1, Len(w)) \o " "
                    \o Join(ws, i + 1, j - 1) \o " " \o StreetContext(ws, j)

\* The false-positive guard of the address patterns.
AddressAccepted(textLower, address) ==
    \/ ~Includes(textLower, "alert")
    \/ Includes(toLowerCase(address), "st")
    \/ Includes(toLowerCase(address), "street")

\* The first of the captured addresses that is a match and passes the guard ("": none).
FirstAddress(textLower, addresses) ==
    LET hits == { k \in 1..Len(addresses) :
                    addresses[k] # "" /\ AddressAccepted(textLower, addresses[k]) }
    IN  IF hits = {} THEN "" ELSE addresses[Min(hits)]

\* The loop over addressPatterns.
AddressMatch(text) ==
    FirstAddress(toLowerCase(text),
                 <<AddressPattern1(text), AddressPattern2(text), AddressPattern3(text)>>)

venueTypes1 ==
    <<"mall", "center", "centre", "store", "shop", "restaurant", "cafe", "cafeteria",
      "hospital", "clinic", "school", "university", "campus", "park", "plaza", "square",
      "stadium", "arena", "building", "tower", "hall", "library", "museum", "theater",
      "theatre", "hotel", "inn", "market", "station", "terminal", "airport">>

venueTypes2 == <<"building", "tower", "hall", "center", "library", "museum">>

areaTypes == <<"neighborhood", "area", "district", "region", "vicinity">>

\* Name(\s+Name){0,maxMore}\s+Noun from word `from`: the index of the noun word
\* the greedy name run ends before (0 when there is no match).
NounEnd(ws, from, maxMore, nouns) ==
    LET ends == { j \in (from + 1)..Len(ws) :
                    /\ j - from <= maxMore + 1
                    /\ AllCap(ws, from, j - 1)
                    /\ FirstTok(ws[j], nouns) # "" }
    IN  IF ends = {} THEN 0 ELSE Max(ends)

\* (?:preps)\s+(?:the\s+)?(Name(\s+Name){0,maxMore}\s+Noun): the capture of the
\* leftmost match, "" when the pattern does not match.
PrepNameNoun(text, preps, optThe, maxMore, nouns) ==
    LET ws == Words(text)
        first(p) ==
            IF optThe /\ p + 1 <= Len(ws) /\ toLowerCase(ws[p + 1]) = "the"
                /\ NounEnd(ws, p + 2, maxMore, nouns) # 0
            THEN p + 2 ELSE p + 1
        starts == { p \in 1..Len(ws) :
                      EndsWithPrep(ws[p], preps) /\ NounEnd(ws, first(p), maxMore, nouns) # 0 }
    IN  IF starts = {} THEN ""
        ELSE LET f == first(Min(starts))
                 j == NounEnd(ws, f, maxMore, nouns)
             IN  Join(ws, f, j - 1) \o " " \o SubSeq(ws[j], 1, Len(FirstTok(ws[j], nouns)))

BuildingPattern1(text) == PrepNameNoun(text, {"at", "in", "near"}, FALSE, 4, venueTypes1)
BuildingPattern2(text) == PrepNameNoun(text, {"at", "in", "near"}, TRUE, 4, venueTypes2)

\* A captured span that holds an action word is no building.
BuildingAccepted(building) ==
    ~\E word \in {"shooting", "arrested", "incident", "alert", "emergency", "police",
                  "active", "reported"} : Includes(toLowerCase(building), word)

\* The first of the captured spans that is a match and a building ("": none).
FirstBuilding(buildings) ==
    LET hits == { k \in 1..Len(buildings) :
                    buildings[k] # "" /\ BuildingAccepted(buildings[k]) }
    IN  IF hits = {} THEN "" ELSE buildings[Min(hits)]

\* The loop over buildingPatterns.
BuildingMatch(text) == FirstBuilding(<<BuildingPattern1(text), BuildingPattern2(text)>>)

crossTypes ==
    <<"street", "st", "avenue", "ave", "road", "rd", "boulevard", "blvd", "drive", "dr",
      "way", "lane", "ln">>

IsCrossType(w) == \E k \in 1..Len(crossTypes) : toLowerCase(w) = crossTypes[k]

IsAnd(w) == toLowerCase(w) \in {"and", "&"}

\* (?:at|near)\s+(A( Type)?)\s+(?:and|&)\s+(B( Type)?), returned as "A & B".
IntersectionMatch(text) ==
    LET ws == Words(text)
        side1(p) == IF p + 3 <= Len(ws) /\ IsCrossType(ws[p + 2]) /\ IsAnd(ws[p + 3])
                    THEN 2 ELSE 1
        b(p) == p + side1(p) + 2
        matches(p) ==
            /\ EndsWithPrep(ws[p], {"at", "near"})
            /\ b(p) <= Len(ws)
            /\ IsCap(ws[p + 1])
            /\ IsAnd(ws[b(p) - 1])
            /\ LetterRun(ws[b(p)]) >= 2
        starts == { p \in 1..Len(ws) : matches(p) }
    IN  IF starts = {} THEN ""
        ELSE LET p == Min(starts)
                 k == b(p)
                 side2 == IF IsCap(ws[k]) /\ k + 1 <= Len(ws)
                             /\ FirstTok(ws[k + 1], crossTypes) # ""
                          THEN ws[k] \o " "
                                  \o SubSeq(ws[k + 1], 1, Len(FirstTok(ws[k + 1], crossTypes)))
                          ELSE SubSeq(ws[k], 1, LetterRun(ws[k]))
             IN  Join(ws, p + 1, p + side1(p)) \o " & " \o side2

NeighborhoodMatch(text) == PrepNameNoun(text, {"in", "at", "near"}, TRUE, 2, areaTypes)

\* The answer of the first matcher that has one: the place found by keyword
\* (0: none), else the first non-empty capture of the patterns, in the source's order.
FirstLocation(place, captures) ==
    LET hits == { k \in 1..Len(captures) : captures[k].location # "" }
    IN  IF place # 0
        THEN [location |-> sortedPlaces[place].name,
              confidence |-> IF sortedPlaces[place].priority = 1 THEN 95 ELSE 75]
        ELSE IF hits # {} THEN captures[Min(hits)]
        ELSE [location |-> "", confidence |-> 0]

\* extractPostLocation on the post's text.
LocationOfText(text) ==
    FirstLocation(FirstPlace(toLowerCase(text)),
                  <<[location |-> AddressMatch(text), confidence |-> 90],
                    [location |-> BuildingMatch(text), confidence |-> 85],
                    [location |-> IntersectionMatch(text), confidence |-> 85],
                    [location |-> NeighborhoodMatch(text), confidence |-> 70]>>)

---------------------------------------------------------------------------
(* The post texts the checks draw from; extraction is computed once per text *)

AnchorTexts ==
    {"Valley Fair Plaza shooting victim hospitalized",
     "Shooting at Valley Fair in San Jose",
     "Shots fired at Valley Fair Plaza",
     "Shooting suspect arrested in Stanford",
     "Shooting at Stanford University"}

\* Texts for the synthesizer: a plain shooting report, an arrest, gunfire with
\* wounded, a cleared scene with a link, a casualty report, a rumour.
TLDRTexts ==
    {"Shooting at Stanford University",
     "Shooting suspect arrested in Stanford",
     "Gunfire near campus, two wounded",
     "Scene cleared, suspect in custody https://t.co/x1",
     "Valley Fair Plaza shooting victim hospitalized",
     "Police say shooting report was a hoax"}

\* The texts the scoring functions are run on.
MetricsTexts ==
    {"Shooting at Stanford University", "Police say shooting report was a hoax",
     "Emergency downtown", "Evacuate downtown", "Police downtown", "SWAT downtown",
     "Lockdown downtown, officials confirmed", "Traffic jam downtown"}

\* Texts that call a report of a shooting at a place false.
GateTexts ==
    {"Santana Row shooting was a hoax", "Hoover Tower shooting is fake",
     "Rumor of shots at Hoover Tower"}

\* Reports that name a neighbourhood, the second by a longer name than the first.
AreaTexts == {"Shooting in Glen area", "Shooting in the Willow Glen area"}

\* The texts of the posts of the incident groups handed to the forEach callbacks.
GroupTexts ==
    {"Man shot 2 people at Stanford University",
     "Police make arrest near Stanford University",
     "Stabbing reported at Santana Row",
     "Crowds gather at Santana Row",
     "25-year-old male arrested at Santana Row",
     "Gunman shot a woman at Santana Row"}

KnownTexts ==
    AnchorTexts \cup TLDRTexts \cup MetricsTexts \cup GateTexts \cup AreaTexts \cup GroupTexts

LocationMemo == [t \in KnownTexts |-> LocationOfText(t)]

TopicsMemo == [t \in KnownTexts |-> TopicsOfText(t)]

LowerMemo == [t \in KnownTexts |-> toLowerCase(t)]

\* toLowerCase, looked up where the string is one of the texts.
Lower(s) == IF s \in KnownTexts THEN LowerMemo[s] ELSE toLowerCase(s)

CleanMemo == [t \in KnownTexts |-> Trim(StripUrlsFrom(t, 1))]

\* post.text.replace(/https?:\/\/[^\s]+/g, '').trim()
CleanText(text) == CleanMemo[text]

\* The checks run on the known texts only.
extractPostLocation(post) == LocationMemo[post.text]

extractTopics(post) == TopicsMemo[post.text]

---------------------------------------------------------------------------
(* Metrics & Scoring, src/server.js:415-441 and 581-627 *)

RECURSIVE SumOver(_, _, _)
SumOver(ps, i, metric) ==
    IF i > Len(ps) THEN 0 ELSE ps[i].engagement[metric] + SumOver(ps, i + 1, metric)

calculateTotalEngagement(ps) ==
    [totalLikes |-> SumOver(ps, 1, "likes"),
     totalRetweets |-> SumOver(ps, 1, "retweets"),
     totalReplies |-> SumOver(ps, 1, "replies"),
     totalQuotes |-> SumOver(ps, 1, "quotes"),
     totalViews |-> SumOver(ps, 1, "views")]

shootingKeywords == {"shooting", "shots fired", "active shooter", "gunfire"}

criticalKeywords == {"emergency", "evacuate", "police", "SWAT", "lockdown"}

SomeTextIncludes(ps, keywords) ==
    \E i \in 1..Len(ps) : \E keyword \in keywords :
        Includes(Lower(ps[i].text), keyword)

\* A cascade whose last two tiers are exchanged.
determineSeverityTiersExchanged(ps) ==
    LET totalEngagement == calculateTotalEngagement(ps)
        totalReactions == totalEngagement.totalLikes + totalEngagement.totalRetweets
        hasShooting == SomeTextIncludes(ps, shootingKeywords)
        hasCriticalKeyword == SomeTextIncludes(ps, criticalKeywords)
    IN  IF Len(ps) = 0 THEN "low"
        ELSE IF hasShooting THEN (IF totalReactions > 500 THEN "critical" ELSE "high")
        ELSE IF hasCriticalKeyword /\ totalReactions > 1000 THEN "critical"
        ELSE IF hasCriticalKeyword /\ totalReactions > 500 THEN "high"
        ELSE IF totalReactions > 1000 THEN "medium"
        ELSE IF totalReactions > 500 THEN "high"
        ELSE "low"

determineSeverity(ps) ==
    LET totalEngagement == calculateTotalEngagement(ps)
        totalReactions == totalEngagement.totalLikes + totalEngagement.totalRetweets
        hasShooting == SomeTextIncludes(ps, shootingKeywords)
        hasCriticalKeyword == SomeTextIncludes(ps, criticalKeywords)
    IN  IF Len(ps) = 0 THEN "low"
        ELSE IF hasShooting THEN (IF totalReactions > 500 THEN "critical" ELSE "high")
        ELSE IF hasCriticalKeyword /\ totalReactions > 1000 THEN "critical"
        ELSE IF hasCriticalKeyword /\ totalReactions > 500 THEN "high"
        ELSE IF totalReactions > 1000 THEN "high"
        ELSE IF totalReactions > 500 THEN "medium"
        ELSE "low"

\* words.some(word => text.includes(word))
IncludesAny(text, words) == \E word \in words : Includes(text, word)

negativeWords == {"false", "hoax", "fake", "debunked", "unconfirmed", "rumor"}

positiveWords == {"confirmed", "verified", "official", "police", "authorities"}

NegativePosts(ps) == { i \in 1..Len(ps) : IncludesAny(Lower(ps[i].text), negativeWords) }

PositivePosts(ps) ==
    { i \in 1..Len(ps) : /\ ~IncludesAny(Lower(ps[i].text), negativeWords)
                         /\ IncludesAny(Lower(ps[i].text), positiveWords) }

VerifiedPosts(ps) == { i \in 1..Len(ps) : ps[i].author.verified }

\* The label from the three counters.
SentimentLabel(positive, negative, neutral) ==
    IF negative > positive THEN "negative"
    ELSE IF positive > neutral THEN "positive" ELSE "neutral"

\* confidence is Math.max(positive, negative, neutral) / total, kept as the pair
\* numerator, denominator (0 / 0 is NaN for an empty post set).
SentimentOf(positive, negative, total, verifiedCount) ==
    [sentiment |-> SentimentLabel(positive, negative, total - positive - negative),
     confidence |-> [num |-> Max({positive, negative, total - positive - negative}),
                     den |-> total],
     verifiedCount |-> verifiedCount]

analyzeSentiment(ps) ==
    SentimentOf(Cardinality(PositivePosts(ps)), Cardinality(NegativePosts(ps)), Len(ps),
                Cardinality(VerifiedPosts(ps)))

\* A filter predicate that keeps every post.
KeepsEveryPost(post) == TRUE

\* The predicate of the engagement filter.
HasEngagement(post) ==
    \/ post.engagement.likes > 0
    \/ post.engagement.retweets > 0
    \/ post.engagement.replies > 0
    \/ post.engagement.views > 0

filterLowEngagementPosts(ps) == SelectSeq(ps, HasEngagement)

---------------------------------------------------------------------------
(* Narrative Synthesizer: generateTLDR, src/server.js:444-578 *)

IsShootingText(text) == IncludesAny(Lower(text), {"shooting", "shots fired"})

\* The sort comparator is negative: a goes before b.
RelevanceBefore(a, b) ==
    \/ IsShootingText(a.text) /\ ~IsShootingText(b.text)
    \/ /\ IsShootingText(a.text) = IsShootingText(b.text)
       /\ a.engagement.likes + a.engagement.retweets
            > b.engagement.likes + b.engagement.retweets

\* Where the stable sort puts post i.
RelevancePosition(ps, i) ==
    1 + Cardinality({ j \in 1..Len(ps) :
                        \/ RelevanceBefore(ps[j], ps[i])
                        \/ j < i /\ ~RelevanceBefore(ps[i], ps[j]) })

\* [...posts].sort(...).slice(0, 7)
TopPosts(ps) ==
    SubSeq([k \in 1..Len(ps) |-> ps[CHOOSE i \in 1..Len(ps) : RelevancePosition(ps, i) = k]],
           1, Min({7, Len(ps)}))

whatHappenedWords == {"shooting", "shots fired", "gunfire", "active shooter"}

suspectWords == {"suspect", "arrested", "in custody", "perpetrator", "shooter"}

resolutionWords ==
    {"resolved", "cleared", "evacuated", "contained", "under control", "arrested",
     "in custody"}

casualtyWords == {"injured", "killed", "wounded", "victim", "casualty", "hospitalized"}

\* (.{0,200}(?:words).{0,200}) on the cleaned text of a post whose text matches the
\* words: for a text of one line and at most 200 characters the match is the whole
\* cleaned text.  "" when the post adds no clause.
ClauseOf(post, words) ==
    IF /\ IncludesAny(Lower(post.text), words)
       /\ IncludesAny(toLowerCase(CleanText(post.text)), words)
    THEN CleanText(post.text) ELSE ""

\* The clauses the forEach over topPosts collects for one word list, without repeats.
RECURSIVE ClausesFrom(_, _, _, _)
ClausesFrom(top, i, words, found) ==
    IF i > Len(top) THEN found
    ELSE ClausesFrom(top, i + 1, words,
            IF ClauseOf(top[i], words) = ""
                \/ \E k \in 1..Len(found) : found[k] = ClauseOf(top[i], words)
            THEN found ELSE Append(found, ClauseOf(top[i], words)))

Clauses(top, words) == ClausesFrom(top, 1, words, <<>>)

\* The predicate of the locationPosts filter, with the location given lower-cased.
MentionsLocation(text, locLower) ==
    \/ Includes(text, locLower)
    \/ Includes(locLower, "stanford") /\ Includes(text, "stanford")
    \/ /\ Includes(locLower, "westfield")
       /\ (Includes(text, "westfield") \/ Includes(text, "valley fair"))
    \/ Includes(locLower, "palo alto") /\ Includes(text, "palo alto")
    \/ Includes(locLower, "san jose") /\ Includes(text, "san jose")

\* The indices of topPosts that make up relevantPosts, in order.
RelevantIndices(top, locLower) ==
    IF \E i \in 1..Len(top) : MentionsLocation(Lower(top[i].text), locLower)
    THEN { i \in 1..Len(top) : MentionsLocation(Lower(top[i].text), locLower) }
    ELSE 1..Len(top)

\* The elements of a sequence at a set of indices, in order.
RECURSIVE Pick(_, _, _)
Pick(seq, i, indices) ==
    IF i > Len(seq) THEN <<>>
    ELSE (IF i \in indices THEN <<seq[i]>> ELSE <<>>) \o Pick(seq, i + 1, indices)

RelevantPosts(top, locLower) == Pick(top, 1, RelevantIndices(top, locLower))

\* The predicate of the find that picks the primary post.
IsPrimary(text, locLower) ==
    /\ (Includes(text, "shooting") \/ Includes(text, "shots fired"))
    /\ \/ Includes(text, locLower)
       \/ Includes(locLower, "stanford") /\ Includes(text, "stanford")
       \/ /\ Includes(locLower, "westfield")
          /\ (Includes(text, "westfield") \/ Includes(text, "valley fair"))

\* relevantPosts.find(...) || relevantPosts[0], as an index.
PrimaryIndex(relevant, locLower) ==
    IF \E i \in 1..Len(relevant) : IsPrimary(Lower(relevant[i].text), locLower)
    THEN Min({ i \in 1..Len(relevant) : IsPrimary(Lower(relevant[i].text), locLower) })
    ELSE 1

Citation(id, post) == [id |-> id, url |-> post.url, username |-> post.author.username]

UsedUrls(citations) == { citations[k].url : k \in 1..Len(citations) }

Mention(post) == "[@" \o post.author.username \o "](" \o post.url \o ") "

\* What the first casualty clause adds after the mention of the primary post.
CasualtyPhrase(casualties) ==
    IF Len(casualties) = 0 THEN "reported the incident"
    ELSE IF IncludesAny(toLowerCase(casualties[1]), {"killed", "dead"})
    THEN "reported fatalities"
    ELSE IF Includes(toLowerCase(casualties[1]), "injured") THEN "reported injuries"
    ELSE ""

\* The "what happened" block, for the primary post.
WhatHappenedPart(primaryPost, incidentLocation, casualties) ==
    [summary |-> "Shooting reported at " \o incidentLocation \o ". " \o Mention(primaryPost)
                    \o CasualtyPhrase(casualties) \o ". ",
     citations |-> <<Citation(1, primaryPost)>>]

\* relevantPosts.find(...) || relevantPosts[1], as an index (0: undefined).
SuspectIndex(relevant) ==
    IF \E i \in 1..Len(relevant) :
          IncludesAny(Lower(relevant[i].text), {"suspect", "arrested", "in custody"})
    THEN Min({ i \in 1..Len(relevant) :
                 IncludesAny(Lower(relevant[i].text), {"suspect", "arrested", "in custody"}) })
    ELSE IF Len(relevant) >= 2 THEN 2 ELSE 0

\* A suspect block that cites its post whether or not its url is already cited.
SuspectPartCitingAgain(acc, relevant, k, suspectInfo) ==
    [summary |->
        IF IncludesAny(toLowerCase(suspectInfo[1]), {"arrested", "in custody"})
        THEN acc.summary
                \o (IF k = 0 THEN "[@source](#) " ELSE Mention(relevant[k]))
                \o "confirmed suspect in custody. "
        ELSE acc.summary,
     citations |->
        IF k # 0 THEN Append(acc.citations, Citation(Len(acc.citations) + 1, relevant[k]))
        ELSE acc.citations]

\* The suspect block, for the suspect post at index k of relevantPosts.
SuspectPart(acc, relevant, k, suspectInfo) ==
    [summary |->
        IF IncludesAny(toLowerCase(suspectInfo[1]), {"arrested", "in custody"})
        THEN acc.summary
                \o (IF k = 0 THEN "[@source](#) " ELSE Mention(relevant[k]))
                \o "confirmed suspect in custody. "
        ELSE acc.summary,
     citations |->
        IF k # 0 /\ relevant[k].url \notin UsedUrls(acc.citations)
        THEN Append(acc.citations, Citation(Len(acc.citations) + 1, relevant[k]))
        ELSE acc.citations]

FirstBlock(relevant, incidentLocation, isShooting, whatHappened, casualties) ==
    IF Len(whatHappened) > 0 /\ isShooting
    THEN WhatHappenedPart(relevant[PrimaryIndex(relevant, toLowerCase(incidentLocation))],
                          incidentLocation, casualties)
    ELSE [summary |-> "", citations |-> <<>>]

SuspectBlock(acc, relevant, suspectInfo) ==
    IF Len(suspectInfo) > 0
    THEN SuspectPart(acc, relevant, SuspectIndex(relevant), suspectInfo)
    ELSE acc

ResolutionBlock(acc, resolution) ==
    IF Len(resolution) > 0 /\ Includes(toLowerCase(resolution[1]), "cleared")
    THEN [summary |-> acc.summary \o "Scene cleared.", citations |-> acc.citations]
    ELSE acc

\* return { summary: summary.trim(), citations }
Returned(acc) == [summary |-> Trim(acc.summary), citations |-> acc.citations]

\* The body of generateTLDR after the sort, on topPosts.
Synthesize(top, incidentLocation) ==
    Returned(
        ResolutionBlock(
            SuspectBlock(
                FirstBlock(RelevantPosts(top, toLowerCase(incidentLocation)),
                           incidentLocation,
                           \E i \in 1..Len(top) : Includes(Lower(top[i].text), "shooting"),
                           Clauses(top, whatHappenedWords),
                           Clauses(top, casualtyWords)),
                RelevantPosts(top, toLowerCase(incidentLocation)),
                Clauses(top, suspectWords)),
            Clauses(top, resolutionWords)))

generateTLDR(ps, incidentLocation) ==
    IF Len(ps) = 0 THEN [summary |-> "No information available.", citations |-> <<>>]
    ELSE Synthesize(TopPosts(ps), incidentLocation)


---------------------------------------------------------------------------
(* Timestamps: new Date(ts).getTime() *)

\* An instant, in minutes.
Timestamp(minutes) == [ok |-> TRUE, t |-> minutes]

Hours(h) == Timestamp(60 * h)

\* A timestamp string that Date cannot parse: its getTime() is NaN.
InvalidTimestamp == [ok |-> FALSE, t |-> 0]

Abs(x) == IF x < 0 THEN 0 - x ELSE x

\* Math.abs(a - b) / (1000 * 60 * 60) > 24; every comparison with NaN is false.
\* A recency test with a 48 hour window.
HoursDiffOver48(a, b) == a.ok /\ b.ok /\ Abs(a.t - b.t) > 48 * 60

HoursDiffOver24(a, b) == a.ok /\ b.ok /\ Abs(a.t - b.t) > 24 * 60

\* a > b on the two getTime() values.
IsLater(a, b) == a.ok /\ b.ok /\ a.t > b.t

---------------------------------------------------------------------------
(* Incident Anchoring Engine: anchorIncidentsToLocations, src/server.js:839-944 *)

\* A first-pass predicate that accepts only the identical location.
MatchesExactLocation(incident, postLocation, postTopics, postTime) ==
    LET topicOverlap == incident.topics \cap postTopics # {}
        isShooting == "shooting" \in postTopics \/ "shooting" \in incident.topics
    IN  /\ Lower(incident.location) = Lower(postLocation.location)
        /\ ~(~topicOverlap /\ incident.topics # {} /\ postTopics # {} /\ isShooting)
        /\ ~HoursDiffOver24(postTime, incident.timestamp)

\* The predicate of incidents.find in the first pass.
MatchesInPass1(incident, postLocation, postTopics, postTime) ==
    LET loc1 == Lower(incident.location)
        loc2 == Lower(postLocation.location)
        topicOverlap == incident.topics \cap postTopics # {}
        isShooting == "shooting" \in postTopics \/ "shooting" \in incident.topics
    IN  /\ ~(loc1 # loc2 /\ ~Includes(loc1, loc2) /\ ~Includes(loc2, loc1))
        /\ ~(~topicOverlap /\ incident.topics # {} /\ postTopics # {} /\ isShooting)
        /\ ~HoursDiffOver24(postTime, incident.timestamp)

\* A second-pass predicate that does not ask whether the text mentions the location.
MatchesByTopicAndTime(incident, postText, postTopics, postTime) ==
    LET topicOverlap == incident.topics \cap postTopics # {}
    IN  /\ ~(~topicOverlap /\ incident.topics # {} /\ postTopics # {})
        /\ ~HoursDiffOver24(postTime, incident.timestamp)

\* The predicate of incidents.find in the second pass.
MatchesInPass2(incident, postText, postTopics, postTime) ==
    LET mentionsLocation == Includes(postText, Lower(incident.location))
        topicOverlap == incident.topics \cap postTopics # {}
    IN  /\ mentionsLocation
        /\ ~(~topicOverlap /\ incident.topics # {} /\ postTopics # {})
        /\ ~HoursDiffOver24(postTime, incident.timestamp)

\* A first pass that takes the longer location of a post of any confidence.
Attach1AnyConfidence(incs, proc, post, postLocation, postTopics) ==
    LET postTime == post.timestamp
        hits == { k \in 1..Len(incs) : MatchesInPass1(incs[k], postLocation, postTopics, postTime) }
    IN  IF post.id \in proc THEN [incidents |-> incs, processed |-> proc]
        ELSE IF postLocation.confidence < 50 THEN [incidents |-> incs, processed |-> proc]
        ELSE IF hits # {}
        THEN LET k == Min(hits)
                 m == incs[k]
             IN  [incidents |->
                    [incs EXCEPT ![k] =
                        [posts |-> Append(m.posts, post),
                         topics |-> m.topics \cup postTopics,
                         timestamp |-> IF IsLater(postTime, m.timestamp)
                                       THEN post.timestamp ELSE m.timestamp,
                         location |-> IF Len(m.location) < Len(postLocation.location)
                                      THEN postLocation.location ELSE m.location]],
                  processed |-> proc \cup {post.id}]
        ELSE [incidents |-> Append(incs, [posts |-> <<post>>,
                                          location |-> postLocation.location,
                                          topics |-> postTopics,
                                          timestamp |-> post.timestamp]),
              processed |-> proc \cup {post.id}]

\* The body of the first forEach for one post: [incidents, processed] afterwards.
Attach1(incs, proc, post, postLocation, postTopics) ==
    LET postTime == post.timestamp
        hits == { k \in 1..Len(incs) : MatchesInPass1(incs[k], postLocation, postTopics, postTime) }
    IN  IF post.id \in proc THEN [incidents |-> incs, processed |-> proc]
        ELSE IF postLocation.confidence < 50 THEN [incidents |-> incs, processed |-> proc]
        ELSE IF hits # {}
        THEN LET k == Min(hits)
                 m == incs[k]
             IN  [incidents |->
                    [incs EXCEPT ![k] =
                        [posts |-> Append(m.posts, post),
                         topics |-> m.topics \cup postTopics,
                         timestamp |-> IF IsLater(postTime, m.timestamp)
                                       THEN post.timestamp ELSE m.timestamp,
                         location |-> IF postLocation.confidence > 80
                                         /\ Len(m.location) < Len(postLocation.location)
                                      THEN postLocation.location ELSE m.location]],
                  processed |-> proc \cup {post.id}]
        ELSE [incidents |-> Append(incs, [posts |-> <<post>>,
                                          location |-> postLocation.location,
                                          topics |-> postTopics,
                                          timestamp |-> post.timestamp]),
              processed |-> proc \cup {post.id}]

\* A first pass that does not look at the processed set.
Pass1PostUnguarded(incs, proc, post) ==
    [incidents |-> Attach1(incs, {}, post, extractPostLocation(post),
                           extractTopics(post)).incidents,
     processed |-> proc \cup Attach1(incs, {}, post, extractPostLocation(post),
                                     extractTopics(post)).processed]

Pass1Post(incs, proc, post) ==
    Attach1(incs, proc, post, extractPostLocation(post), extractTopics(post))

\* A second pass that advances the timestamp of the cluster as the first pass does.
Attach2AdvancingTime(incs, proc, post, postText, postTopics) ==
    LET postTime == post.timestamp
        hits == { k \in 1..Len(incs) : MatchesInPass2(incs[k], postText, postTopics, postTime) }
    IN  IF post.id \in proc THEN [incidents |-> incs, processed |-> proc]
        ELSE IF hits # {}
        THEN LET k == Min(hits)
                 m == incs[k]
             IN  [incidents |->
                    [incs EXCEPT ![k] = [m EXCEPT !.posts = Append(m.posts, post),
                                                  !.topics = m.topics \cup postTopics,
                                                  !.timestamp =
                                                      IF IsLater(postTime, m.timestamp)
                                                      THEN post.timestamp ELSE m.timestamp]],
                  processed |-> proc \cup {post.id}]
        ELSE [incidents |-> incs, processed |-> proc]

\* The body of the second forEach for one post.
Attach2(incs, proc, post, postText, postTopics) ==
    LET postTime == post.timestamp
        hits == { k \in 1..Len(incs) : MatchesInPass2(incs[k], postText, postTopics, postTime) }
    IN  IF post.id \in proc THEN [incidents |-> incs, processed |-> proc]
        ELSE IF hits # {}
        THEN LET k == Min(hits)
                 m == incs[k]
             IN  [incidents |->
                    [incs EXCEPT ![k] = [m EXCEPT !.posts = Append(m.posts, post),
                                                  !.topics = m.topics \cup postTopics]],
                  processed |-> proc \cup {post.id}]
        ELSE [incidents |-> incs, processed |-> proc]

Pass2Post(incs, proc, post) ==
    Attach2(incs, proc, post, Lower(post.text), extractTopics(post))

HasPosts(incident) == Len(incident.posts) >= 1

\* incidents.filter(incident => incident.posts.length >= 1)
FilterIncidents(incs) == SelectSeq(incs, HasPosts)

\* The forEach loops from post i on, on acc = [incidents, processed].
RECURSIVE Pass1From(_, _, _)
Pass1From(ps, i, acc) ==
    IF i > Len(ps) THEN acc
    ELSE Pass1From(ps, i + 1, Pass1Post(acc.incidents, acc.processed, ps[i]))

RECURSIVE Pass2From(_, _, _)
Pass2From(ps, i, acc) ==
    IF i > Len(ps) THEN acc
    ELSE Pass2From(ps, i + 1, Pass2Post(acc.incidents, acc.processed, ps[i]))

\* The whole function, as the assembler calls it.
anchorIncidentsToLocations(ps) ==
    FilterIncidents(
        Pass2From(ps, 1, Pass1From(ps, 1, [incidents |-> <<>>, processed |-> {}])).incidents)

---------------------------------------------------------------------------
(* Posts as searchTweets maps them, src/server.js:374-406 *)

MakePost(id, username, verified, text, timestamp, engagement) ==
    [id |-> id,
     text |-> text,
     author |-> [username |-> username, verified |-> verified],
     url |-> "https://twitter.com/" \o username \o "/status/" \o id,
     timestamp |-> timestamp,
     engagement |-> engagement]

Engagement(likes, retweets, replies, quotes, views) ==
    [likes |-> likes, retweets |-> retweets, replies |-> replies, quotes |-> quotes,
     views |-> views]

---------------------------------------------------------------------------
(* The anchoring engine run on one batch, a post at a time *)

\* The largest batch.
MaxBatch == 3

AnchorTimes == {Hours(0), Hours(2), Hours(26), InvalidTimestamp}

\* A batch of n posts with the given texts and timestamps; ids are "1".."n".
AnchorBatch(n, texts, times) ==
    [i \in 1..n |->
        MakePost(ToString(i), "user" \o ToString(i), FALSE, texts[i], times[i],
                 Engagement(200, 0, 0, 0, 0))]

InitAnchor ==
    /\ \E n \in 1..MaxBatch :
         \E texts \in [1..n -> AnchorTexts], times \in [1..n -> AnchorTimes] :
            posts = AnchorBatch(n, texts, times)
    /\ incidents = <<>>
    /\ processed = {}
    /\ phase = "pass1"
    /\ cursor = 1
    /\ anchored = <<>>
    /\ IdleTLDR /\ IdleFetch /\ IdleScore /\ IdleLoc /\ IdleGroup

\* One iteration of the first forEach.
Pass1Step ==
    /\ phase = "pass1"
    /\ incidents' = Pass1Post(incidents, processed, posts[cursor]).incidents
    /\ processed' = Pass1Post(incidents, processed, posts[cursor]).processed
    /\ IF cursor = Len(posts)
       THEN phase' = "pass2" /\ cursor' = 1
       ELSE phase' = phase /\ cursor' = cursor + 1
    /\ UNCHANGED <<posts, anchored, tldrVars, fetchVars, scoreVars, locVars, groupVars>>

\* One iteration of the second forEach.
Pass2Step ==
    /\ phase = "pass2"
    /\ incidents' = Pass2Post(incidents, processed, posts[cursor]).incidents
    /\ processed' = Pass2Post(incidents, processed, posts[cursor]).processed
    /\ IF cursor = Len(posts)
       THEN phase' = "filter" /\ cursor' = 1
       ELSE phase' = phase /\ cursor' = cursor + 1
    /\ UNCHANGED <<posts, anchored, tldrVars, fetchVars, scoreVars, locVars, groupVars>>

\* The final filter and the return.
ReturnIncidents ==
    /\ phase = "filter"
    /\ anchored' = FilterIncidents(incidents)
    /\ phase' = "done"
    /\ UNCHANGED <<posts, incidents, processed, cursor, tldrVars, fetchVars, scoreVars, locVars, groupVars>>

NextAnchor == Pass1Step \/ Pass2Step \/ ReturnIncidents

SpecAnchor == InitAnchor /\ [][NextAnchor]_vars

\* Batches in which a post can occur more than once: every position holds the post
\* of one of two ids.
RepeatIds == {"1", "2"}

RepeatTimes == {Hours(0), Hours(26)}

RepeatBatch(n, ids, texts, times) ==
    [i \in 1..n |->
        MakePost(ids[i], "user" \o ids[i], FALSE, texts[ids[i]], times[ids[i]],
                 Engagement(200, 0, 0, 0, 0))]

InitAnchorRepeats ==
    /\ \E n \in 1..MaxBatch :
         \E ids \in [1..n -> RepeatIds], texts \in [RepeatIds -> AnchorTexts \cup AreaTexts],
            times \in [RepeatIds -> RepeatTimes] :
            posts = RepeatBatch(n, ids, texts, times)
    /\ incidents = <<>>
    /\ processed = {}
    /\ phase = "pass1"
    /\ cursor = 1
    /\ anchored = <<>>
    /\ IdleTLDR /\ IdleFetch /\ IdleScore /\ IdleLoc /\ IdleGroup

SpecAnchorRepeats == InitAnchorRepeats /\ [][NextAnchor]_vars

---------------------------------------------------------------------------
(* Properties of the anchoring engine *)

\* The clusters of incs that hold the post with this id.
ClustersOf(incs, id) ==
    { k \in 1..Len(incs) : \E j \in 1..Len(incs[k].posts) : incs[k].posts[j].id = id }

SameCluster(incs, i, j) ==
    ClustersOf(incs, posts[i].id) \cap ClustersOf(incs, posts[j].id) # {}

DifferentClusters(incs, i, j) ==
    /\ ClustersOf(incs, posts[i].id) # {}
    /\ ClustersOf(incs, posts[j].id) # {}
    /\ ~SameCluster(incs, i, j)

Located(i) == extractPostLocation(posts[i]).confidence >= 50

WithinHours(a, b, n) == a.ok /\ b.ok /\ Abs(a.t - b.t) <= n * 60

\* Locations equal or one a case-insensitive substring of the other, a shared topic,
\* at most 24 hours apart.
Related(i, j) ==
    LET a == Lower(extractPostLocation(posts[i]).location)
        b == Lower(extractPostLocation(posts[j]).location)
    IN  /\ Located(i) /\ Located(j)
        /\ (a = b \/ Includes(a, b) \/ Includes(b, a))
        /\ extractTopics(posts[i]) \cap extractTopics(posts[j]) # {}
        /\ WithinHours(posts[i].timestamp, posts[j].timestamp, 24)

\* Three shooting posts that mention "Valley Fair", within 2 hours, 600 likes+reshares.
ValleyFairBatch ==
    /\ Len(posts) = 3
    /\ \A i \in 1..3 :
          /\ Includes(Lower(posts[i].text), "valley fair")
          /\ "shooting" \in extractTopics(posts[i])
          /\ posts[i].engagement.likes > 0
          /\ \A j \in 1..3 : WithinHours(posts[i].timestamp, posts[j].timestamp, 2)
    /\ LET e == calculateTotalEngagement(posts) IN e.totalLikes + e.totalRetweets = 600

\* C1 (as the specification states it): three shooting posts that all mention
\* "Valley Fair", within 2 hours of each other and with 600 likes+reshares in total,
\* come out as exactly one cluster holding all three, of severity 'critical' and
\* location "Westfield Valley Fair", also when "San Jose" appears in the texts.
C1_ValleyFairOneCriticalCluster ==
    (phase = "done" /\ ValleyFairBatch) =>
        /\ Len(anchored) = 1
        /\ Len(anchored[1].posts) = 3
        /\ determineSeverity(anchored[1].posts) = "critical"
        /\ anchored[1].location = "Westfield Valley Fair"

OnlyLocatedBefore(i, j) == \A k \in 1..(j - 1) : k # i => ~Located(k)

IdenticalLocationFarApart(i, j) ==
    /\ i # j /\ Located(i) /\ Located(j)
    /\ extractPostLocation(posts[i]).location = extractPostLocation(posts[j]).location
    /\ posts[i].timestamp.ok /\ posts[j].timestamp.ok
    /\ Abs(posts[i].timestamp.t - posts[j].timestamp.t) > 24 * 60

NothingBetween(i, j) ==
    \A k \in 1..Len(posts) :
        /\ posts[k].timestamp.ok
        /\ ~(/\ posts[k].timestamp.t > Min({posts[i].timestamp.t, posts[j].timestamp.t})
             /\ posts[k].timestamp.t < Max({posts[i].timestamp.t, posts[j].timestamp.t}))

---------------------------------------------------------------------------
(* The synthesizer run on one post set *)

\* The largest post set handed to the synthesizer.
MaxSources == 3

\* The posts the synthesizer is run on: an id, an author, a text, likes.
TLDRPool ==
    {MakePost("1", "alice", FALSE, "Shooting at Stanford University", Hours(0),
              Engagement(300, 0, 0, 0, 0)),
     MakePost("2", "bob", FALSE, "Shooting suspect arrested in Stanford", Hours(1),
              Engagement(10, 5, 0, 0, 0)),
     MakePost("3", "carol", FALSE, "Gunfire near campus, two wounded", Hours(1),
              Engagement(400, 0, 0, 0, 0)),
     MakePost("4", "SJPD", TRUE, "Scene cleared, suspect in custody https://t.co/x1",
              Hours(2), Engagement(20, 0, 0, 0, 0)),
     MakePost("5", "dave", FALSE, "Valley Fair Plaza shooting victim hospitalized",
              Hours(2), Engagement(5, 0, 0, 0, 0)),
     MakePost("6", "erin", FALSE, "Police say shooting report was a hoax", Hours(3),
              Engagement(0, 0, 0, 2, 0))}

TLDRLocations == {"Stanford University", "Valley Fair Plaza"}

InitTLDR ==
    /\ \E n \in 0..MaxSources : tldrPosts \in [1..n -> TLDRPool]
    /\ tldrLocation \in TLDRLocations
    /\ tldr = <<>>
    /\ IdleAnchor /\ IdleFetch /\ IdleScore /\ IdleLoc /\ IdleGroup

\* The call generateTLDR(posts, incidentLocation).
CallGenerateTLDR ==
    /\ tldr = <<>>
    /\ tldr' = <<generateTLDR(tldrPosts, tldrLocation)>>
    /\ UNCHANGED <<tldrPosts, tldrLocation, anchorVars, fetchVars, scoreVars, locVars, groupVars>>

NextTLDR == CallGenerateTLDR

SpecTLDR == InitTLDR /\ [][NextTLDR]_vars

---------------------------------------------------------------------------
(* Properties of the synthesizer *)

PostUrls(ps) == { ps[i].url : i \in 1..Len(ps) }

\* C10: each citation's url is the url of one of the given posts, no url is cited
\* twice, and the citation ids are exactly 1..n in list order; for an empty post set
\* the summary is "No information available." with no citations.
C10_CitationsWellFormed ==
    tldr # <<>> =>
        LET citations == tldr[1].citations
        IN  /\ \A k \in 1..Len(citations) :
                  /\ citations[k].url \in PostUrls(tldrPosts)
                  /\ citations[k].id = k
            /\ \A k, m \in 1..Len(citations) : k # m => citations[k].url # citations[m].url
            /\ (tldrPosts = <<>> =>
                    tldr[1].summary = "No information available." /\ citations = <<>>)

\* A summary that cites two posts, of a set that holds one post twice.
C10_Witness ==
    /\ tldr # <<>>
    /\ Len(tldr[1].citations) = 2
    /\ \E i, j \in 1..Len(tldrPosts) : i # j /\ tldrPosts[i].url = tldrPosts[j].url

---------------------------------------------------------------------------
(* The catalogue of known incidents: fetchHardcodedIncidents,              *)
(* src/server.js:1053-1495                                                 *)

\* The first descriptors of the catalogue.  Timestamps are minutes after
\* 2025-12-01T00:00:00Z.
hardcodedIncidents ==
    <<[title |-> "17-year-old shoots 3 people at Westfield Valley Fair Mall",
       location |-> "Westfield Valley Fair Mall, San Jose",
       timestamp |-> Timestamp(1 * 1440 + 20 * 60),
       description |-> "A 17-year-old opened fire at the mall (Black Friday aftermath), injuring three people (a man, a woman, and a 16-year-old girl). All were treated for non-life-threatening wounds. ABC7 Los Angeles. NBC Bay Area."],
      [title |-> "Juvenile shoots 1 student at Phillip and Sala Burton Academic High School",
       location |-> "Phillip and Sala Burton Academic High School, San Francisco",
       timestamp |-> Timestamp(1 * 1440 + 20 * 60),
       description |-> "Student shot (leg wound) on campus around lunchtime; juvenile suspect taken into custody. School was locked down briefly. San Francisco Police Department. KALW."],
      [title |-> "Unidentified person shoots 1 man at Turk Street, Tenderloin",
       location |-> "Turk Street, Tenderloin, San Francisco",
       timestamp |-> Timestamp(1 * 1440 + 14 * 60 + 12),
       description |-> "Man found fatally shot while sitting inside his car on Turk Street at ~6:12 a.m. Police investigating as homicide. NBC Bay Area. San Francisco Police Department."],
      [title |-> "Unidentified person shoots 1 man at Market Street, North Oakland",
       location |-> "5900 block of Market Street, North Oakland",
       timestamp |-> Timestamp(5 * 1440 + 6 * 60),
       description |-> "Man from San Leandro shot at around 10:00 p.m. on the 5900 block of Market Street; he later died at hospital. Police responded after automated gunfire detection alert. SFGATE."],
      [title |-> "Unidentified person shoots 5 people near Safeway, Outer Richmond",
       location |-> "Great Highway and Fulton Street, Outer Richmond, San Francisco",
       timestamp |-> Timestamp(20 * 60 - 23 * 1440),
       description |-> "Shooting near the Safeway / Great Highway + Fulton Street left five people wounded (a mix of juveniles and at least one adult); one man was in life-threatening condition. Police believe it stemmed from a fight. ABC7 San Francisco. Los Angeles Times."],
      [title |-> "2 juveniles shoot 1 student at Skyline High School",
       location |-> "Skyline High School, Oakland",
       timestamp |-> Timestamp(21 * 60 + 30 - 19 * 1440),
       description |-> "Juvenile student was shot on campus around 1:30 p.m.; two juvenile suspects were taken into custody and two guns recovered. The student is expected to survive. KTVU FOX 2 San Francisco. KQED."],
      [title |-> "Unidentified person shoots 1 staff member at Laney College",
       location |-> "Laney College field house, Oakland",
       timestamp |-> Timestamp(20 * 60 - 18 * 1440),
       description |-> "Senior athletics-staff member was shot inside the college's field house. The shooting came one day after the Skyline High School shooting. Police investigated; the victim was hospitalized. AP News. Wikipedia."],
      [title |-> "Suspect shoots 1 staff member at Laney College (fatal)",
       location |-> "Laney College, Oakland",
       timestamp |-> Timestamp(20 * 60 - 17 * 1440),
       description |-> "The staff-member shot above later died after being shot; suspect arrested. The victim was a well-known former coach and athletics director. Wikipedia. The Guardian."],
      [title |-> "Multiple shooters kill 4 people at Monkey Space event hall, Stockton",
       location |-> "Monkey Space event hall, Stockton",
       timestamp |-> Timestamp(20 * 60 - 2 * 1440),
       description |-> "Mass shooting at a children's birthday-party event: 4 people killed (3 children) and many more wounded. The shooting appears targeted; multiple shooters suspected. AP News. Wikipedia."]>>

\* A cascade without its first branch.
SeverityWithoutCritical(description) ==
    IF IncludesAny(description, {"fatally", "died", "killed"}) THEN "high"
    ELSE IF Includes(description, "life-threatening") THEN "high"
    ELSE "medium"

\* The severity cascade on the description of a descriptor.
SeverityOfDescription(description) ==
    IF IncludesAny(description, {"mass shooting", "4 people killed", "3 children killed"})
    THEN "critical"
    ELSE IF IncludesAny(description, {"fatally", "died", "killed"}) THEN "high"
    ELSE IF Includes(description, "life-threatening") THEN "high"
    ELSE "medium"

catalogueSeverity ==
    [e \in 1..Len(hardcodedIncidents) |->
        SeverityOfDescription(hardcodedIncidents[e].description)]

\* The Incident of a descriptor with surviving posts.
CatalogueIncident(id, incidentData, severity, sources, tldrResult) ==
    [id |-> id,
     title |-> incidentData.title,
     severity |-> severity,
     location |-> incidentData.location,
     timestamp |-> incidentData.timestamp,
     description |-> incidentData.description,
     discussion |->
        [shooterStatus |-> IF severity = "high" THEN "Under Investigation"
                           ELSE "Suspect in Custody",
         userSummary |-> IF tldrResult.summary # "" THEN tldrResult.summary
                         ELSE incidentData.description,
         tldrCitations |-> tldrResult.citations,
         sources |-> sources,
         totalEngagement |-> calculateTotalEngagement(sources)]]

\* tweets.forEach(tweet => { if (!postsMap.has(tweet.id)) postsMap.set(tweet.id, tweet) })
RECURSIVE AddNew(_, _, _)
AddNew(map, tweets, i) ==
    IF i > Len(tweets) THEN map
    ELSE AddNew(IF \E k \in 1..Len(map) : map[k].id = tweets[i].id
                THEN map ELSE Append(map, tweets[i]),
                tweets, i + 1)

\* A loop body that pushes a placeholder Incident for an entry without posts.
EntryIncidentsWithPlaceholder(incidents_, e, surviving) ==
    Append(incidents_,
           CatalogueIncident(Len(incidents_) + 1, hardcodedIncidents[e], catalogueSeverity[e],
                             surviving,
                             generateTLDR(surviving, hardcodedIncidents[e].location)))

\* The loop body after the searches of entry e: the incidents list afterwards, for
\* the posts that survived the engagement filter.  uuidv4() is the next unused number.
EntryIncidents(incidents_, e, surviving) ==
    IF Len(surviving) = 0 THEN incidents_
    ELSE Append(incidents_,
                CatalogueIncident(Len(incidents_) + 1, hardcodedIncidents[e],
                                  catalogueSeverity[e], surviving,
                                  generateTLDR(surviving, hardcodedIncidents[e].location)))

---------------------------------------------------------------------------
(* The assembler: fetchRealTimeIncidents, src/server.js:1498-2018 *)

\* query && query.trim() !== ""
IsCustomQuery(q) == q # "" /\ Trim(q) # ""

\* sentiment.confidence > 0.6, on the pair numerator, denominator.
ConfidenceOver60(confidence) == confidence.num * 10 > 6 * confidence.den

IsReliable(sentiment, count) ==
    /\ sentiment.sentiment # "negative"
    /\ (sentiment.verifiedCount > 0 \/ ConfidenceOver60(sentiment.confidence) \/ count >= 1)

\* A gate that drops every group that is not reliable, whatever its size.
IsSkippedAtAnySize(group) ==
    ~IsReliable(analyzeSentiment(group.posts), Len(group.posts))

\* The early return of the forEach callback for a group.
IsSkipped(group) ==
    ~IsReliable(analyzeSentiment(group.posts), Len(group.posts)) /\ Len(group.posts) < 2

\* Math.max(...timestamps) is NaN as soon as one timestamp is.
HasInvalidTime(ps) == \E i \in 1..Len(ps) : ~ps[i].timestamp.ok

\* new Date(Math.max(...timestamps)).toISOString(), for timestamps that all parse.
MostRecent(ps) == Timestamp(Max({ ps[i].timestamp.t : i \in 1..Len(ps) }))

\* toISOString() throws RangeError("Invalid time value") on the first group that is
\* not skipped and holds a timestamp that does not parse.
ThrowsInvalidTime(groups) ==
    \E g \in 1..Len(groups) : ~IsSkipped(groups[g]) /\ HasInvalidTime(groups[g].posts)

LiveShooterStatus(severity) ==
    IF severity = "critical" THEN "Active Investigation"
    ELSE IF severity = "high" THEN "Monitoring" ELSE "Verified"

\* The Incident pushed for a group.
LiveIncident(id, group, severity, tldrResult) ==
    [id |-> id,
     severity |-> severity,
     location |-> group.location,
     timestamp |-> MostRecent(group.posts),
     discussion |->
        [shooterStatus |-> LiveShooterStatus(severity),
         userSummary |-> tldrResult.summary,
         tldrCitations |-> tldrResult.citations,
         sources |-> group.posts,
         totalEngagement |-> calculateTotalEngagement(group.posts)]]

\* incidentGroups.forEach(...): the incidents pushed from group g on.
RECURSIVE LiveIncidentsFrom(_, _, _, _)
LiveIncidentsFrom(groups, g, pushed, nextId) ==
    IF g > Len(groups) THEN pushed
    ELSE IF IsSkipped(groups[g]) THEN LiveIncidentsFrom(groups, g + 1, pushed, nextId)
    ELSE LiveIncidentsFrom(groups, g + 1,
            Append(pushed,
                   LiveIncident(nextId, groups[g], determineSeverity(groups[g].posts),
                                generateTLDR(groups[g].posts, groups[g].location))),
            nextId + 1)

severityOrder == [critical |-> 4, high |-> 3, medium |-> 2, low |-> 1]

Reactions(incident) ==
    incident.discussion.totalEngagement.totalLikes
        + incident.discussion.totalEngagement.totalRetweets

\* The comparator of the final sort is negative: a goes before b.
SortsBefore(a, b) ==
    \/ severityOrder[b.severity] - severityOrder[a.severity] < 0
    \/ /\ severityOrder[b.severity] = severityOrder[a.severity]
       /\ Reactions(b) - Reactions(a) < 0

\* Where the stable sort puts incident i.
SortPosition(list, i) ==
    1 + Cardinality({ j \in 1..Len(list) :
                        \/ SortsBefore(list[j], list[i])
                        \/ j < i /\ ~SortsBefore(list[i], list[j]) })

\* allIncidents.sort(...)
SortIncidents(list) ==
    [k \in 1..Len(list) |-> list[CHOOSE i \in 1..Len(list) : SortPosition(list, i) = k]]

\* [...hardcodedIncidents, ...incidents].sort(...)
MergeAndSort(hardcodedList, groups) ==
    SortIncidents(hardcodedList
                    \o LiveIncidentsFrom(groups, 1, <<>>, Len(hardcodedList) + 1))

\* The message of the Error the outer catch throws for a caught error.message.
ErrorMessage(message) ==
    IF message = "" THEN "Failed to fetch incidents from X API."
    ELSE IF Includes(message, "Authentication failed") \/ Includes(message, "401")
    THEN "X API Authentication failed. Please check your API credentials in .env.local file."
    ELSE IF Includes(message, "Rate limit") \/ Includes(message, "429")
    THEN "X API Rate limit exceeded. Please wait a few minutes and try again."
    ELSE IF Includes(message, "Access forbidden") \/ Includes(message, "403")
    THEN "X API Access forbidden. Please check your API permissions and ensure you have access to the Twitter API v2."
    ELSE IF Includes(message, "Connection") \/ Includes(message, "network")
    THEN "Network error connecting to X API. Please check your internet connection."
    ELSE "X API Error: " \o message

\* The message of the error a rejected fetch() carries out of searchTweets.
FetchRejected == "Failed to fetch"

\* The message of the RangeError of toISOString().
InvalidTimeValue == "Invalid time value"

\* post.author.verified = true
MarkVerified(post) == [post EXCEPT !.author.verified = TRUE]

\* A merge that also marks the copy a city search delivered.
RECURSIVE AddPoliceMarkingKnown(_, _, _)
AddPoliceMarkingKnown(map, reports, i) ==
    IF i > Len(reports) THEN map
    ELSE AddPoliceMarkingKnown(
            IF \E k \in 1..Len(map) : map[k].id = reports[i].id
            THEN [k \in 1..Len(map) |-> IF map[k].id = reports[i].id
                                        THEN MarkVerified(map[k]) ELSE map[k]]
            ELSE Append(map, MarkVerified(reports[i])),
            reports, i + 1)

\* policeReports.forEach(...): posts not yet in allPostsMap enter it marked verified.
RECURSIVE AddPolice(_, _, _)
AddPolice(map, reports, i) ==
    IF i > Len(reports) THEN map
    ELSE AddPolice(IF \E k \in 1..Len(map) : map[k].id = reports[i].id
                   THEN map ELSE Append(map, MarkVerified(reports[i])),
                   reports, i + 1)

\* array.flat() of a sequence of post lists.
RECURSIVE Flat(_, _)
Flat(lists, i) == IF i > Len(lists) THEN <<>> ELSE lists[i] \o Flat(lists, i + 1)

---------------------------------------------------------------------------
(* One invocation of fetchRealTimeIncidents against a search API that may  *)
(* fail, deliver nothing, or deliver posts                                 *)

\* The catalogue entries fetched, and the queries sent for each.
NumCatalogue == 3

QueriesPerEntry == 2

\* The cities searched, the queries of searchByCity, and the queries of
\* searchPoliceReports and of the general searches.
NumCities == 2

QueriesPerCity == 3

NumPoliceQueries == 1

NumGeneralQueries == 1

\* What a search call can do: reject, or resolve to a list of tweets.
Rejected == [ok |-> FALSE, tweets |-> <<>>]

Resolved(tweets) == [ok |-> TRUE, tweets |-> tweets]

CatalogueTexts ==
    <<"Shooting at Valley Fair in San Jose", "Shooting suspect arrested in Stanford",
      "Gunfire near campus, two wounded", "Scene cleared, suspect in custody https://t.co/x1">>

\* The posts about catalogue entry e: one nobody reacted to, one with likes.
UnnoticedPost(e) ==
    MakePost("c" \o ToString(e) \o "a", "newsdesk", FALSE, CatalogueTexts[e],
             hardcodedIncidents[e].timestamp, Engagement(0, 0, 0, 3, 0))

LikedPost(e) ==
    MakePost("c" \o ToString(e) \o "b", "witness", FALSE, CatalogueTexts[e],
             hardcodedIncidents[e].timestamp, Engagement(50 * e, 0, 0, 0, 0))

CatalogueOutcomes(e) ==
    {Rejected, Resolved(<<>>), Resolved(<<UnnoticedPost(e)>>),
     Resolved(<<UnnoticedPost(e), LikedPost(e)>>)}

\* The live posts.
StanfordPost ==
    MakePost("101", "alice", FALSE, "Shooting at Stanford University", Hours(200),
             Engagement(600, 0, 0, 0, 0))

ArrestPost ==
    MakePost("102", "bob", FALSE, "Shooting suspect arrested in Stanford", Hours(201),
             Engagement(10, 5, 0, 0, 0))

SilentPost ==
    MakePost("103", "carol", FALSE, "Shots fired at Valley Fair Plaza", Hours(202),
             Engagement(0, 0, 0, 0, 0))

UndatedPost ==
    MakePost("104", "SJPD", FALSE, "Shots fired at Valley Fair Plaza", InvalidTimestamp,
             Engagement(20, 0, 0, 0, 0))

\* Posts that deny a report: one about Santana Row, two about Hoover Tower.
HoaxPost ==
    MakePost("105", "dave", FALSE, "Santana Row shooting was a hoax", Hours(203),
             Engagement(5, 0, 0, 0, 0))

FakePost ==
    MakePost("106", "erin", FALSE, "Hoover Tower shooting is fake", Hours(204),
             Engagement(0, 4, 0, 0, 0))

RumorPost ==
    MakePost("107", "frank", FALSE, "Rumor of shots at Hoover Tower", Hours(205),
             Engagement(0, 0, 2, 0, 0))

CustomOutcomes ==
    {Rejected, Resolved(<<>>), Resolved(<<SilentPost>>), Resolved(<<StanfordPost, ArrestPost>>),
     Resolved(<<ArrestPost, UndatedPost>>), Resolved(<<HoaxPost>>),
     Resolved(<<HoaxPost, FakePost, ArrestPost, RumorPost>>)}

\* What query q of a city can deliver.
CityFeed(q) ==
    IF q = 1 THEN <<StanfordPost>>
    ELSE IF q = 2 THEN <<StanfordPost, ArrestPost>>
    ELSE <<SilentPost>>

CityOutcomes(q) == {Rejected, Resolved(<<>>), Resolved(CityFeed(q))}

PoliceOutcomes ==
    {Rejected, Resolved(<<>>), Resolved(<<UndatedPost>>), Resolved(<<HoaxPost, ArrestPost>>)}

GeneralOutcomes ==
    {Rejected, Resolved(<<>>), Resolved(<<SilentPost, ArrestPost>>),
     Resolved(<<FakePost, RumorPost>>)}

Queries == {"", "  ", "shooting"}

Unsettled == [settled |-> FALSE, tweets |-> <<>>]

Init ==
    /\ pc = "catalogue"
    /\ query \in Queries
    /\ entry = 1 /\ searchNo = 1
    /\ postsMap = [e \in 1..NumCatalogue |-> <<>>]
    /\ hardcoded = <<>>
    /\ cityTasks = [c \in 1..NumCities |-> [searchNo |-> 1, allTweets |-> <<>>]]
    /\ policeTask = [q \in 1..NumPoliceQueries |-> Unsettled]
    /\ generalTasks = [q \in 1..NumGeneralQueries |-> Unsettled]
    /\ livePosts = <<>> /\ thrown = "" /\ result = <<>>
    /\ IdleAnchor /\ IdleTLDR /\ IdleScore /\ IdleLoc /\ IdleGroup

\* What the loop does with the entry's posts once its search settled.
AfterCatalogueSearch(map) ==
    /\ postsMap' = [postsMap EXCEPT ![entry] = map]
    /\ IF searchNo < QueriesPerEntry
       THEN /\ searchNo' = searchNo + 1
            /\ UNCHANGED <<pc, entry, hardcoded>>
       ELSE /\ hardcoded' = EntryIncidents(hardcoded, entry, filterLowEngagementPosts(map))
            /\ searchNo' = 1
            /\ entry' = entry + 1
            /\ pc' = IF entry < NumCatalogue THEN "catalogue"
                     ELSE IF IsCustomQuery(query) THEN "custom" ELSE "fetching"

\* A search of the catalogue loop settles; a rejection is caught and logged.  The
\* loop runs on to its next search call, or to the first one after the catalogue.
CatalogueSearchSettles ==
    /\ pc = "catalogue"
    /\ \E outcome \in CatalogueOutcomes(entry) :
          AfterCatalogueSearch(IF outcome.ok THEN AddNew(postsMap[entry], outcome.tweets, 1)
                               ELSE postsMap[entry])
    /\ UNCHANGED <<query, cityTasks, policeTask, generalTasks, livePosts, thrown, result>>
    /\ UNCHANGED <<anchorVars, tldrVars, scoreVars, locVars, groupVars>>

\* The forEach over the groups and the final merge and sort; the RangeError of
\* toISOString() reaches the outer catch, which throws a new Error.
BuildAndReturn(groups) ==
    IF ThrowsInvalidTime(groups)
    THEN /\ pc' = "thrown"
         /\ thrown' = ErrorMessage(InvalidTimeValue)
         /\ UNCHANGED result
    ELSE /\ pc' = "returned"
         /\ result' = MergeAndSort(hardcoded, groups)
         /\ UNCHANGED thrown

\* The search of the custom query settles, and the invocation runs to its end.
AfterCustomSearch(outcome) ==
    IF ~outcome.ok
    THEN /\ pc' = "thrown"
         /\ thrown' = ErrorMessage(FetchRejected)
         /\ UNCHANGED <<livePosts, result>>
    ELSE IF Len(outcome.tweets) = 0
    THEN /\ pc' = "returned"
         /\ result' = <<>>
         /\ UNCHANGED <<livePosts, thrown>>
    ELSE /\ livePosts' = outcome.tweets
         /\ BuildAndReturn(anchorIncidentsToLocations(filterLowEngagementPosts(outcome.tweets)))

CustomSearchSettles ==
    /\ pc = "custom"
    /\ \E outcome \in CustomOutcomes : AfterCustomSearch(outcome)
    /\ UNCHANGED <<query, entry, searchNo, postsMap, hardcoded, cityTasks, policeTask,
                   generalTasks>>
    /\ UNCHANGED <<anchorVars, tldrVars, scoreVars, locVars, groupVars>>

\* tweets.forEach(tweet => { if (!allTweets.find(t => t.id === tweet.id)) allTweets.push(...) })
\* A search of searchByCity(c) settles; a rejection is caught and logged.
CitySearchSettles(c) ==
    /\ pc = "fetching"
    /\ cityTasks[c].searchNo <= QueriesPerCity
    /\ \E outcome \in CityOutcomes(cityTasks[c].searchNo) :
          cityTasks' =
             [cityTasks EXCEPT
                ![c] = [searchNo |-> @.searchNo + 1,
                        allTweets |-> IF outcome.ok
                                      THEN AddNew(@.allTweets, outcome.tweets, 1)
                                      ELSE @.allTweets]]
    /\ UNCHANGED <<pc, query, entry, searchNo, postsMap, hardcoded, policeTask, generalTasks,
                   livePosts, thrown, result>>
    /\ UNCHANGED <<anchorVars, tldrVars, scoreVars, locVars, groupVars>>

\* searchTweets(query, 100).catch(() => []) of searchPoliceReports settles.
PoliceSearchSettles(q) ==
    /\ pc = "fetching"
    /\ ~policeTask[q].settled
    /\ \E outcome \in PoliceOutcomes :
          policeTask' = [policeTask EXCEPT
                            ![q] = [settled |-> TRUE,
                                    tweets |-> IF outcome.ok THEN outcome.tweets ELSE <<>>]]
    /\ UNCHANGED <<pc, query, entry, searchNo, postsMap, hardcoded, cityTasks, generalTasks,
                   livePosts, thrown, result>>
    /\ UNCHANGED <<anchorVars, tldrVars, scoreVars, locVars, groupVars>>

\* searchTweets(query, 100).then(...).catch(err => []) of a general search settles.
GeneralSearchSettles(q) ==
    /\ pc = "fetching"
    /\ ~generalTasks[q].settled
    /\ \E outcome \in GeneralOutcomes :
          generalTasks' = [generalTasks EXCEPT
                              ![q] = [settled |-> TRUE,
                                      tweets |-> IF outcome.ok THEN outcome.tweets ELSE <<>>]]
    /\ UNCHANGED <<pc, query, entry, searchNo, postsMap, hardcoded, cityTasks, policeTask,
                   livePosts, thrown, result>>
    /\ UNCHANGED <<anchorVars, tldrVars, scoreVars, locVars, groupVars>>

\* Array.from(allPostsMap.values()): city results, then police reports, then the
\* general results, each post once.
AllPostsMap ==
    AddNew(AddPolice(AddNew(<<>>, Flat([c \in 1..NumCities |-> cityTasks[c].allTweets], 1), 1),
                     Flat([q \in 1..NumPoliceQueries |-> policeTask[q].tweets], 1), 1),
           Flat([q \in 1..NumGeneralQueries |-> generalTasks[q].tweets], 1), 1)

\* What follows the filter on the default path.
AfterFilter(allPosts) ==
    IF Len(allPosts) = 0
    THEN /\ pc' = "returned"
         /\ result' = hardcoded
         /\ UNCHANGED thrown
    ELSE BuildAndReturn(anchorIncidentsToLocations(allPosts))

\* A pipeline that starts as soon as the city searches are through.
CitySearchesSettled ==
    /\ pc = "fetching"
    /\ \A c \in 1..NumCities : cityTasks[c].searchNo > QueriesPerCity
    /\ livePosts' = AllPostsMap
    /\ AfterFilter(filterLowEngagementPosts(AllPostsMap))
    /\ UNCHANGED <<query, entry, searchNo, postsMap, hardcoded, cityTasks, policeTask,
                   generalTasks>>
    /\ UNCHANGED <<anchorVars, tldrVars, scoreVars, locVars, groupVars>>

\* The outer Promise.all resolved: the invocation merges, filters, groups and returns.
AllSearchesSettled ==
    /\ pc = "fetching"
    /\ \A c \in 1..NumCities : cityTasks[c].searchNo > QueriesPerCity
    /\ \A q \in 1..NumPoliceQueries : policeTask[q].settled
    /\ \A q \in 1..NumGeneralQueries : generalTasks[q].settled
    /\ livePosts' = AllPostsMap
    /\ AfterFilter(filterLowEngagementPosts(AllPostsMap))
    /\ UNCHANGED <<query, entry, searchNo, postsMap, hardcoded, cityTasks, policeTask,
                   generalTasks>>
    /\ UNCHANGED <<anchorVars, tldrVars, scoreVars, locVars, groupVars>>

Next ==
    \/ CatalogueSearchSettles
    \/ CustomSearchSettles
    \/ \E c \in 1..NumCities : CitySearchSettles(c)
    \/ \E q \in 1..NumPoliceQueries : PoliceSearchSettles(q)
    \/ \E q \in 1..NumGeneralQueries : GeneralSearchSettles(q)
    \/ AllSearchesSettled

Spec == Init /\ [][Next]_vars

---------------------------------------------------------------------------
(* Properties of the assembler *)

Finished == pc \in {"returned", "thrown"}

\* C4: a failure of a single search call, in the catalogue, custom-query, city,
\* police or general searches, is caught and counts as zero posts: no invocation
\* ends by throwing the error of a rejected search.
C4_SearchFailureIsCaught == pc = "thrown" => thrown # ErrorMessage(FetchRejected)

\* C5: the assembler is total: whatever posts the fetch layer hands over, also posts
\* whose timestamp does not parse, no exception raised while grouping, scoring or
\* summarising reaches the caller.
C5_AssemblerIsTotal == pc = "thrown" => thrown # ErrorMessage(InvalidTimeValue)

SeverityRank(severity) ==
    IF severity = "critical" THEN 4
    ELSE IF severity = "high" THEN 3
    ELSE IF severity = "medium" THEN 2 ELSE 1

InOrder(a, b) ==
    \/ SeverityRank(a.severity) > SeverityRank(b.severity)
    \/ /\ SeverityRank(a.severity) = SeverityRank(b.severity)
       /\ a.discussion.totalEngagement.totalLikes + a.discussion.totalEngagement.totalRetweets
            >= b.discussion.totalEngagement.totalLikes
                 + b.discussion.totalEngagement.totalRetweets

\* C6: every returned incident list is sorted descending by severity rank and, among
\* equal severities, descending by totalLikes + totalRetweets.
C6_ReturnedListIsSorted ==
    pc = "returned" =>
        \A i, j \in 1..Len(result) : i < j => InOrder(result[i], result[j])

\* C7: every catalogue incident built in the invocation is in the returned list.
C7_CatalogueIncidentsReturned ==
    pc = "returned" =>
        \A k \in 1..Len(hardcoded) : \E m \in 1..Len(result) : result[m] = hardcoded[k]

ReactedTo(post) ==
    \/ post.engagement.likes > 0
    \/ post.engagement.retweets > 0
    \/ post.engagement.replies > 0
    \/ post.engagement.views > 0

\* The posts of catalogue entry e that pass the engagement filter.
Surviving(e) == SelectSeq(postsMap[e], ReactedTo)

IncidentsTitled(e) ==
    { k \in 1..Len(hardcoded) : hardcoded[k].title = hardcodedIncidents[e].title }

\* C8: a catalogue entry whose queries all returned nothing, failed, or returned only
\* posts the engagement filter removes has no Incident and no placeholder; every
\* other entry with a surviving post has its Incident, with those posts as sources.
C8_EmptyEntryLeavesNoIncident ==
    \A e \in 1..NumCatalogue :
        e < entry =>
            IF Surviving(e) = <<>> THEN IncidentsTitled(e) = {}
            ELSE \E k \in 1..Len(hardcoded) :
                    /\ IncidentsTitled(e) = {k}
                    /\ hardcoded[k].discussion.sources = Surviving(e)

\* The catalogue is through; an entry whose only post was removed by the filter is
\* followed by an entry that has its Incident.
C8_Witness ==
    /\ entry > NumCatalogue
    /\ \E e, f \in 1..NumCatalogue :
          /\ e < f
          /\ postsMap[e] # <<>> /\ Surviving(e) = <<>> /\ IncidentsTitled(e) = {}
          /\ Surviving(f) # <<>> /\ IncidentsTitled(f) # {}

NoReaction(post) ==
    /\ post.engagement.likes = 0 /\ post.engagement.retweets = 0
    /\ post.engagement.replies = 0 /\ post.engagement.quotes = 0
    /\ post.engagement.views = 0

AllSilent == \A i \in 1..Len(livePosts) : NoReaction(livePosts[i])

\* C9: when every live post the searches delivered has zero engagement on all
\* metrics, the invocation returns, and every incident it returns is a catalogue
\* incident.  (The searches delivered: the custom search did not reject.)
C9_SilentPostsGiveNoLiveIncident ==
    (Finished /\ AllSilent /\ thrown # ErrorMessage(FetchRejected)) =>
        /\ pc = "returned"
        /\ \A m \in 1..Len(result) : \E k \in 1..Len(hardcoded) : result[m] = hardcoded[k]

\* A live search delivered posts, all without engagement, next to a catalogue
\* incident, and the invocation returned.
C9_Witness ==
    /\ pc = "returned"
    /\ livePosts # <<>> /\ AllSilent
    /\ hardcoded # <<>> /\ result # <<>>

---------------------------------------------------------------------------
(* The scoring step run on two post sets, more than once *)

\* The largest post set scored, and the number of runs of the step.
MaxScored == 2

MaxRuns == 2

MetricsPost(n, text, verified, likes, retweets) ==
    MakePost("m" \o ToString(n), "user" \o ToString(n), verified, text, Hours(n),
             Engagement(likes, retweets, 0, 0, 0))

MetricsPool ==
    {MetricsPost(1, "Shooting at Stanford University", FALSE, 300, 0),
     MetricsPost(2, "Shooting at Stanford University", FALSE, 400, 200),
     MetricsPost(3, "Police say shooting report was a hoax", FALSE, 0, 0),
     MetricsPost(4, "Emergency downtown", FALSE, 600, 0),
     MetricsPost(5, "Evacuate downtown", FALSE, 1100, 0),
     MetricsPost(6, "Police downtown", TRUE, 500, 100),
     MetricsPost(7, "SWAT downtown", FALSE, 600, 0),
     MetricsPost(8, "SWAT downtown", FALSE, 1100, 0),
     MetricsPost(9, "Lockdown downtown, officials confirmed", FALSE, 600, 0),
     MetricsPost(10, "Lockdown downtown, officials confirmed", TRUE, 1100, 0),
     MetricsPost(11, "Traffic jam downtown", FALSE, 0, 0),
     MetricsPost(12, "Traffic jam downtown", FALSE, 600, 0),
     MetricsPost(13, "Traffic jam downtown", FALSE, 1100, 0)}

InitMetrics ==
    /\ \E n, m \in 0..MaxScored :
          \E a \in [1..n -> MetricsPool], b \in [1..m -> MetricsPool] :
              scoredPosts = <<a, b>>
    /\ scores = <<>>
    /\ IdleAnchor /\ IdleTLDR /\ IdleFetch /\ IdleLoc /\ IdleGroup

\* What the three functions return for a post set.
MetricsOf(ps) ==
    [totalEngagement |-> calculateTotalEngagement(ps),
     severity |-> determineSeverity(ps),
     sentiment |-> analyzeSentiment(ps)]

\* A step that marks the authors of the posts it reads as verified.
PostsMarkedVerified(ps) == [i \in 1..Len(ps) |-> MarkVerified(ps[i])]

\* The posts after the three functions ran: reduce, some and forEach only read them.
PostsAfterMetrics(ps) == ps

\* One run of the scoring step on both post sets.
RunMetrics ==
    /\ Len(scores) < MaxRuns
    /\ scores' = Append(scores, [k \in 1..2 |-> MetricsOf(scoredPosts[k])])
    /\ scoredPosts' = [k \in 1..2 |-> PostsAfterMetrics(scoredPosts[k])]
    /\ UNCHANGED <<anchorVars, tldrVars, fetchVars, locVars, groupVars>>

NextMetrics == RunMetrics

SpecMetrics == InitMetrics /\ [][NextMetrics]_vars

---------------------------------------------------------------------------
(* Properties of the scoring step *)

TotalReactions(ps) == SumOver(ps, 1, "likes") + SumOver(ps, 1, "retweets")

\* The keyword findings of determineSeverity for a post set.
SameFindings(a, b) ==
    /\ SomeTextIncludes(a, shootingKeywords) = SomeTextIncludes(b, shootingKeywords)
    /\ SomeTextIncludes(a, criticalKeywords) = SomeTextIncludes(b, criticalKeywords)

\* C11: determineSeverity is monotonic in engagement: of two post sets with the same
\* keyword findings, the one with no more likes+reshares has no higher severity rank.
C11_SeverityMonotonic ==
    \A r \in 1..Len(scores) : \A k, m \in 1..2 :
        (/\ SameFindings(scoredPosts[k], scoredPosts[m])
         /\ TotalReactions(scoredPosts[k]) <= TotalReactions(scoredPosts[m]))
        => SeverityRank(scores[r][k].severity) <= SeverityRank(scores[r][m].severity)

\* Two post sets without keywords were scored, one below and one above 1000 reactions.
C11_Witness ==
    /\ scores # <<>>
    /\ SameFindings(scoredPosts[1], scoredPosts[2])
    /\ ~SomeTextIncludes(scoredPosts[1], shootingKeywords \cup criticalKeywords)
    /\ TotalReactions(scoredPosts[1]) = 600 /\ TotalReactions(scoredPosts[2]) = 1100
    /\ scores[1][1].severity = "medium" /\ scores[1][2].severity = "high"

\* A text contains the word, whatever the case of its letters.
Mentions(text, words) == \E w \in words : Includes(toLowerCase(text), toLowerCase(w))

SomeMentions(ps, words) == \E i \in 1..Len(ps) : Mentions(ps[i].text, words)

\* C12: for a non-empty post set without a shooting keyword in which some text
\* contains emergency, evacuate, police, SWAT or lockdown (in any case), the severity
\* is 'critical' above 1000 likes+reshares and 'high' above 500 and up to 1000.
C12_CriticalKeywordSeverity ==
    \A r \in 1..Len(scores) : \A k \in 1..2 :
        (/\ scoredPosts[k] # <<>>
         /\ ~SomeMentions(scoredPosts[k],
                          {"shooting", "shots fired", "active shooter", "gunfire"})
         /\ SomeMentions(scoredPosts[k],
                         {"emergency", "evacuate", "police", "SWAT", "lockdown"}))
        => /\ TotalReactions(scoredPosts[k]) > 1000 => scores[r][k].severity = "critical"
           /\ (TotalReactions(scoredPosts[k]) > 500 /\ TotalReactions(scoredPosts[k]) <= 1000)
                 => scores[r][k].severity = "high"

---------------------------------------------------------------------------
(* The location extractor run on one post text *)

\* The texts handed to the extractor: an opening, a report and a closing.
Openings == {"", "Emergency Alert: ", "San Jose police: ", "BREAKING in Palo Alto - "}

Reports ==
    {"shots fired at Santana Row", "Valley Fair Mall on lockdown",
     "crowd gathers at Hoover Tower", "3 people stabbed", "5 Main Stanley closed",
     "12 Weston Placer blocked", "7 Main Wayne flooded", "fire at 123 Main Street",
     "power outage reported"}

Closings == {"", " in San Jose", " near Stanford", " downtown"}

InitLocation ==
    /\ \E opening \in Openings, report \in Reports, closing \in Closings :
          locText = opening \o report \o closing
    /\ located = <<>>
    /\ IdleAnchor /\ IdleTLDR /\ IdleFetch /\ IdleScore /\ IdleGroup

\* The call extractPostLocation(post) for a post with this text.
CallExtractPostLocation ==
    /\ located = <<>>
    /\ located' = <<LocationOfText(locText)>>
    /\ UNCHANGED <<locText, anchorVars, tldrVars, fetchVars, scoreVars, groupVars>>

NextLocation == CallExtractPostLocation

SpecLocation == InitLocation /\ [][NextLocation]_vars

---------------------------------------------------------------------------
(* Properties of the location extractor *)

VenueKeywords ==
    UNION { { specificPlaces[i].keywords[k] : k \in 1..Len(specificPlaces[i].keywords) } :
            i \in { n \in 1..Len(specificPlaces) : specificPlaces[n].priority = 1 } }

VenueNames ==
    { specificPlaces[i].name : i \in { n \in 1..Len(specificPlaces) : specificPlaces[n].priority = 1 } }

CityKeywords ==
    UNION { { specificPlaces[i].keywords[k] : k \in 1..Len(specificPlaces[i].keywords) } :
            i \in { n \in 1..Len(specificPlaces) : specificPlaces[n].priority = 3 } }

\* C14: for a text with a tier-1 venue keyword the extractor returns a tier-1 place
\* with confidence 0.95, never a city, whichever city keywords the text also holds
\* and wherever they stand.
C14_VenueOutranksCity ==
    (located # <<>> /\ Mentions(locText, VenueKeywords)) =>
        /\ located[1].confidence = 95
        /\ located[1].location \in VenueNames

\* The extractor ran on a text that names a city before its venue.
C14_Witness ==
    /\ located # <<>>
    /\ Mentions(locText, {"santana row"})
    /\ StartsWith(locText, "San Jose")
    /\ located[1].location = "Santana Row"

\* A word of the text is a street-type token.
HasStreetToken(text) ==
    \E k \in 1..Len(Words(text)) :
        LET w == Words(text)[k]
        IN  \E t \in 1..Len(streetTypes) :
                toLowerCase(SubSeq(w, 1, LetterRun(w))) = streetTypes[t]

\* C19: for a text that contains "Emergency Alert" and no street-type token, the
\* extractor never returns a street-address match (confidence 0.9).
C19_AlertIsNoAddress ==
    (located # <<>> /\ Includes(locText, "Emergency Alert") /\ ~HasStreetToken(locText)) =>
        located[1].confidence # 90

----------------------------------------------------------------------------
(* The assembler: the engagement filter seen through the incidents *)

\* The posts an incident cites.
SourcesOf(incident) ==
    { incident.discussion.sources[i] : i \in 1..Len(incident.discussion.sources) }

\* The posts cited by an incident of catalogue entry e.
CitedFor(e) == UNION { SourcesOf(hardcoded[k]) : k \in IncidentsTitled(e) }

\* C15: the engagement filter drops a post exactly when likes, reshares, replies,
\* quotes and views are all zero: every post a catalogue search delivered with some
\* non-zero metric, quotes included, is a source of its entry's incident, and no
\* incident, live or catalogue, cites a post whose metrics are all zero.
C15_FilterDropsOnlySilentPosts ==
    /\ \A e \in 1..NumCatalogue :
          e < entry =>
              \A i \in 1..Len(postsMap[e]) :
                  ~NoReaction(postsMap[e][i]) => postsMap[e][i] \in CitedFor(e)
    /\ \A m \in 1..Len(result) : \A post \in SourcesOf(result[m]) : ~NoReaction(post)
    /\ \A k \in 1..Len(hardcoded) : \A post \in SourcesOf(hardcoded[k]) : ~NoReaction(post)

\* The clusters the live path of the finished invocation scored: the anchoring of
\* the live posts that pass the engagement filter.
LiveClusters == anchorIncidentsToLocations(filterLowEngagementPosts(livePosts))

\* The returned incidents that come from a live cluster.
LiveResults == { m \in 1..Len(result) : \A k \in 1..Len(hardcoded) : result[m] # hardcoded[k] }

YieldsIncident(group) == \E m \in LiveResults : result[m].discussion.sources = group.posts

IsNegative(group) == analyzeSentiment(group.posts).sentiment = "negative"

\* C16: the reliability gate of the live path drops a cluster exactly when its
\* overall sentiment is 'negative' and it has fewer than 2 posts; every cluster
\* with 2 or more posts and every cluster whose sentiment is not negative yields
\* an Incident.
C16_ReliabilityGate ==
    (pc = "returned" /\ livePosts # <<>> /\ LiveClusters # <<>>) =>
        \A g \in 1..Len(LiveClusters) :
            YieldsIncident(LiveClusters[g])
                <=> ~(IsNegative(LiveClusters[g]) /\ Len(LiveClusters[g].posts) < 2)

\* A returned invocation with a dropped single-post cluster of negative sentiment,
\* a kept two-post cluster of negative sentiment and a kept single-post cluster
\* that is not negative.
C16_Witness ==
    /\ pc = "returned" /\ livePosts # <<>>
    /\ \E a, b, c \in 1..Len(LiveClusters) :
          /\ IsNegative(LiveClusters[a]) /\ Len(LiveClusters[a].posts) = 1
          /\ ~YieldsIncident(LiveClusters[a])
          /\ IsNegative(LiveClusters[b]) /\ Len(LiveClusters[b].posts) = 2
          /\ YieldsIncident(LiveClusters[b])
          /\ ~IsNegative(LiveClusters[c]) /\ Len(LiveClusters[c].posts) = 1
          /\ YieldsIncident(LiveClusters[c])

----------------------------------------------------------------------------
(* The catalogue loop on its own: fetchHardcodedIncidents, src/server.js:1053-1495,
   over all nine descriptors *)

\* The posts the searches of entry e can deliver: a post on another subject that
\* was only viewed, and a much-liked report of a shooting posted 90 minutes after
\* the time the descriptor gives.
ViewedPost(e) ==
    MakePost("v" \o ToString(e), "passerby", FALSE, "Traffic jam downtown",
             hardcodedIncidents[e].timestamp, Engagement(0, 0, 0, 0, 1))

ReportPost(e) ==
    MakePost("r" \o ToString(e), "newsdesk", TRUE, "Shooting at Stanford University",
             Timestamp(hardcodedIncidents[e].timestamp.t + 90), Engagement(1200, 0, 0, 0, 0))

\* Entries with an odd number are answered with the viewed post, the others with the
\* report.
EntryOutcomes(e) ==
    {Rejected, Resolved(<<>>), Resolved(IF e % 2 = 1 THEN <<ViewedPost(e)>> ELSE <<ReportPost(e)>>)}

InitCatalogue ==
    /\ pc = "catalogue" /\ query = ""
    /\ entry = 1 /\ searchNo = 1
    /\ postsMap = [e \in 1..Len(hardcodedIncidents) |-> <<>>]
    /\ hardcoded = <<>>
    /\ cityTasks = <<>> /\ policeTask = <<>> /\ generalTasks = <<>>
    /\ livePosts = <<>> /\ thrown = "" /\ result = <<>>
    /\ IdleAnchor /\ IdleTLDR /\ IdleScore /\ IdleLoc /\ IdleGroup

\* The loop body once a search of the entry settled; after the last descriptor the
\* function returns its incidents.
AfterEntrySearch(map) ==
    /\ postsMap' = [postsMap EXCEPT ![entry] = map]
    /\ IF searchNo < QueriesPerEntry
       THEN /\ searchNo' = searchNo + 1
            /\ UNCHANGED <<pc, entry, hardcoded>>
       ELSE /\ hardcoded' = EntryIncidents(hardcoded, entry, filterLowEngagementPosts(map))
            /\ searchNo' = 1
            /\ entry' = entry + 1
            /\ pc' = IF entry < Len(hardcodedIncidents) THEN "catalogue" ELSE "catalogued"

EntrySearchSettles ==
    /\ pc = "catalogue"
    /\ \E outcome \in EntryOutcomes(entry) :
          AfterEntrySearch(IF outcome.ok THEN AddNew(postsMap[entry], outcome.tweets, 1)
                           ELSE postsMap[entry])
    /\ UNCHANGED <<query, cityTasks, policeTask, generalTasks, livePosts, thrown, result>>
    /\ UNCHANGED <<anchorVars, tldrVars, scoreVars, locVars, groupVars>>

NextCatalogue == EntrySearchSettles

SpecCatalogue == InitCatalogue /\ [][NextCatalogue]_vars

\* The severity the posts of an incident would get from the generic cascade.
PostSeverity(incident) == determineSeverity(incident.discussion.sources)

\* C17: the severity of a catalogue incident is a cascade over the description of
\* its descriptor alone: 'critical' with "mass shooting", "4 people killed" or
\* "3 children killed", else 'high' with "fatally", "died", "killed" or
\* "life-threatening", else 'medium'; it is never 'low', whatever the posts are.
C17_CatalogueSeverityFromDescription ==
    \A k \in 1..Len(hardcoded) :
        /\ hardcoded[k].severity =
              IF \/ Includes(hardcoded[k].description, "mass shooting")
                 \/ Includes(hardcoded[k].description, "4 people killed")
                 \/ Includes(hardcoded[k].description, "3 children killed")
              THEN "critical"
              ELSE IF \/ Includes(hardcoded[k].description, "fatally")
                      \/ Includes(hardcoded[k].description, "died")
                      \/ Includes(hardcoded[k].description, "killed")
                      \/ Includes(hardcoded[k].description, "life-threatening")
              THEN "high"
              ELSE "medium"
        /\ hardcoded[k].severity # "low"

\* The loop is through with a 'critical' and a 'high' incident whose posts alone
\* would score 'low', and a 'medium' incident whose posts alone would score
\* 'critical'.
C17_Witness ==
    /\ pc = "catalogued"
    /\ \E a, b, c \in 1..Len(hardcoded) :
          /\ hardcoded[a].severity = "critical" /\ PostSeverity(hardcoded[a]) = "low"
          /\ hardcoded[b].severity = "high" /\ PostSeverity(hardcoded[b]) = "low"
          /\ hardcoded[c].severity = "medium" /\ PostSeverity(hardcoded[c]) = "critical"

\* C18: every incident, built from a live cluster or from a catalogue entry, carries
\* as its timestamp the most recent timestamp among its member posts
\* (discussion.sources).
C18_TimestampIsMostRecentSource ==
    /\ \A k \in 1..Len(hardcoded) :
          hardcoded[k].timestamp = MostRecent(hardcoded[k].discussion.sources)
    /\ \A m \in 1..Len(result) :
          result[m].timestamp = MostRecent(result[m].discussion.sources)

----------------------------------------------------------------------------
(* The anchoring engine on batches with repeated post ids *)

\* The places (cluster, position) of the returned clusters that hold a post with
\* this id.
PlacesOf(incs, id) ==
    { <<k, j>> \in (1..Len(incs)) \X (1..MaxBatch) :
        j <= Len(incs[k].posts) /\ incs[k].posts[j].id = id }

BatchIds == { posts[i].id : i \in 1..Len(posts) }

\* C20: when anchorIncidentsToLocations has returned, on a batch with or without
\* repeated post ids, every cluster member is a post of the batch, no post id stands
\* twice in a cluster or in two clusters, every post whose location has confidence
\* >= 0.5 is a member of exactly one cluster, and every returned cluster has a
\* member: the final filter removed nothing.
C20_ClustersPartitionLocatedPosts ==
    phase = "done" =>
        /\ \A k \in 1..Len(anchored) : \A j \in 1..Len(anchored[k].posts) :
              \E i \in 1..Len(posts) : anchored[k].posts[j] = posts[i]
        /\ \A id \in BatchIds : Cardinality(PlacesOf(anchored, id)) <= 1
        /\ \A i \in 1..Len(posts) :
              Located(i) => Cardinality(PlacesOf(anchored, posts[i].id)) = 1
        /\ \A k \in 1..Len(anchored) : Len(anchored[k].posts) >= 1
        /\ anchored = incidents

\* The function returned for a batch of three in which a located post stands twice
\* and a post without a location of its own joined its cluster in the second pass.
C20_Witness ==
    /\ phase = "done"
    /\ Len(posts) = 3 /\ posts[1] = posts[2] /\ posts[3].id # posts[1].id
    /\ Located(1) /\ ~Located(3)
    /\ Len(anchored) = 1
    /\ anchored[1].posts = <<posts[1], posts[3]>>

----------------------------------------------------------------------------
(* The anchoring engine: what a step may change in a cluster *)

\* The location the extractor gives the post under the cursor.
CursorLocation == extractPostLocation(posts[cursor])

\* C21: a cluster's location changes only when a post attaches in pass 1 with a
\* location of confidence > 0.8 that is strictly longer than the stored one, and it
\* becomes that post's location: its length never decreases and a post with
\* confidence <= 0.8 never replaces it.
C21_LocationOnlyGrows ==
    [][\A k \in 1..Len(incidents) :
          /\ k <= Len(incidents')
          /\ Len(incidents'[k].location) >= Len(incidents[k].location)
          /\ incidents'[k].location # incidents[k].location =>
                /\ phase = "pass1"
                /\ incidents'[k].posts = Append(incidents[k].posts, posts[cursor])
                /\ CursorLocation.confidence > 80
                /\ incidents'[k].location = CursorLocation.location
                /\ Len(CursorLocation.location) > Len(incidents[k].location)]_vars

\* A cluster seeded by a post that names a city took the longer venue name of the
\* post that attached next.
C21_Witness ==
    /\ phase = "done"
    /\ \E k \in 1..Len(anchored) :
          /\ Len(anchored[k].posts) = 2
          /\ extractPostLocation(anchored[k].posts[1]).confidence = 75
          /\ extractPostLocation(anchored[k].posts[2]).confidence = 95
          /\ anchored[k].location = extractPostLocation(anchored[k].posts[2]).location
          /\ Len(anchored[k].location)
                > Len(extractPostLocation(anchored[k].posts[1]).location)

\* Cluster k gained the post under the cursor and its topics, and nothing else of it
\* changed.
GainsCursorPost(k) ==
    incidents'[k] = [incidents[k] EXCEPT
                        !.posts = Append(incidents[k].posts, posts[cursor]),
                        !.topics = incidents[k].topics \cup extractTopics(posts[cursor])]

\* C22: a step of pass 2 leaves the location and the most-recent timestamp of every
\* cluster as they were and neither creates nor removes a cluster; it either changes
\* nothing, or appends the post to one existing cluster, unions the post's topics
\* into it and marks the post processed.
C22_Pass2KeepsLocationAndTime ==
    [][phase = "pass2" =>
          /\ Len(incidents') = Len(incidents)
          /\ \A k \in 1..Len(incidents) :
                /\ incidents'[k].location = incidents[k].location
                /\ incidents'[k].timestamp = incidents[k].timestamp
          /\ \/ incidents' = incidents /\ processed' = processed
             \/ /\ processed' = processed \cup {posts[cursor].id}
                /\ posts[cursor].id \notin processed
                /\ \E k \in 1..Len(incidents) :
                      /\ GainsCursorPost(k)
                      /\ \A other \in 1..Len(incidents) :
                            other # k => incidents'[other] = incidents[other]]_vars

\* A returned cluster holds a post that joined in pass 2 and is newer than the
\* timestamp the cluster carries.
C22_Witness ==
    /\ phase = "done"
    /\ \E k \in 1..Len(anchored) : \E j \in 1..Len(anchored[k].posts) :
          /\ extractPostLocation(anchored[k].posts[j]).confidence < 50
          /\ IsLater(anchored[k].posts[j].timestamp, anchored[k].timestamp)

\* The names of the named-place table, venues and cities.
PlaceNames == { specificPlaces[i].name : i \in 1..Len(specificPlaces) }

\* C29: a cluster whose location is a name of the named-place table never gains a
\* member in pass 2: a post whose text contains that name matches a keyword of the
\* table itself and is consumed by pass 1, so pass 2 attaches posts only to clusters
\* whose location came from a pattern.
C29_NamedPlaceClusterClosedInPass2 ==
    [][phase = "pass2" =>
          \A k \in 1..Len(incidents) :
              incidents[k].location \in PlaceNames =>
                  incidents'[k].posts = incidents[k].posts]_vars

\* The function returned a cluster at a named place next to a cluster at a location
\* found by a pattern, and the latter holds a post that joined in pass 2.
C29_Witness ==
    /\ phase = "done"
    /\ \E a, b \in 1..Len(anchored) :
          /\ anchored[a].location \in PlaceNames
          /\ anchored[b].location \notin PlaceNames
          /\ \E j \in 1..Len(anchored[b].posts) :
                extractPostLocation(anchored[b].posts[j]).confidence < 50

----------------------------------------------------------------------------
(* The assembler: the order of fetching and clustering on the default path *)

\* A live search task of the default path has not settled yet.
FetchInFlight ==
    \/ \E c \in 1..Len(cityTasks) : cityTasks[c].searchNo <= QueriesPerCity
    \/ \E q \in 1..Len(policeTask) : ~policeTask[q].settled
    \/ \E q \in 1..Len(generalTasks) : ~generalTasks[q].settled

\* A live search of the default path has settled.
LiveFetchSettled ==
    \/ \E c \in 1..Len(cityTasks) : cityTasks[c].searchNo > 1
    \/ \E q \in 1..Len(policeTask) : policeTask[q].settled
    \/ \E q \in 1..Len(generalTasks) : generalTasks[q].settled

\* C23: on the default path the clustering, scoring and synthesis of the live posts
\* run only when every city, police and general search has settled, by success or by
\* failure: no result or combined post set exists while a fetch is in flight; and the
\* catalogue fetch is through before a live fetch is issued.
C23_PipelineAfterAllFetches ==
    ~IsCustomQuery(query) =>
        /\ (Finished \/ livePosts # <<>> \/ result # <<>>) => ~FetchInFlight
        /\ (pc = "fetching" \/ LiveFetchSettled) => entry > NumCatalogue
        /\ pc = "catalogue" => ~LiveFetchSettled

\* The default path returned an incident of a live cluster after all its searches
\* settled, one of them without posts.
C23_Witness ==
    /\ ~IsCustomQuery(query) /\ pc = "returned"
    /\ ~FetchInFlight
    /\ \E q \in 1..Len(policeTask) : policeTask[q].tweets = <<>>
    /\ \E m \in 1..Len(result) : \A k \in 1..Len(hardcoded) : result[m] # hardcoded[k]

\* What the searches of the default path delivered, in the merge order: the cities
\* in list order, then the police reports, then the general searches.
CityPosts == Flat([c \in 1..Len(cityTasks) |-> cityTasks[c].allTweets], 1)

PolicePosts == Flat([q \in 1..Len(policeTask) |-> policeTask[q].tweets], 1)

GeneralPosts == Flat([q \in 1..Len(generalTasks) |-> generalTasks[q].tweets], 1)

Delivered == CityPosts \o PolicePosts \o GeneralPosts

\* The position in Delivered of the first post with this id.
FirstDelivery(id) == Min({ n \in 1..Len(Delivered) : Delivered[n].id = id })

FromPolice(n) == n > Len(CityPosts) /\ n <= Len(CityPosts) + Len(PolicePosts)

\* C30: on the default path the combined post set holds every delivered post id once,
\* as the first copy in the merge order city searches, police reports, general
\* searches, whatever the order in which the searches completed; a post is marked
\* verified only when its first copy is the police copy, so a police post that a
\* city search also returned keeps the verified flag it came with.
C30_CombinedSetKeepsFirstCopy ==
    (~IsCustomQuery(query) /\ Finished) =>
        /\ \A i, j \in 1..Len(livePosts) : i < j =>
              /\ livePosts[i].id # livePosts[j].id
              /\ FirstDelivery(livePosts[i].id) < FirstDelivery(livePosts[j].id)
        /\ { livePosts[i].id : i \in 1..Len(livePosts) }
              = { Delivered[n].id : n \in 1..Len(Delivered) }
        /\ \A i \in 1..Len(livePosts) :
              livePosts[i] =
                 IF FromPolice(FirstDelivery(livePosts[i].id))
                 THEN [Delivered[FirstDelivery(livePosts[i].id)]
                          EXCEPT !.author.verified = TRUE]
                 ELSE Delivered[FirstDelivery(livePosts[i].id)]

\* The invocation finished with a post that a city search and the police search both
\* delivered and that is not marked verified, next to a police post that is.
C30_Witness ==
    /\ ~IsCustomQuery(query) /\ Finished
    /\ \E i, j \in 1..Len(livePosts) :
          /\ ~livePosts[i].author.verified
          /\ \E n \in 1..Len(CityPosts) : CityPosts[n].id = livePosts[i].id
          /\ \E n \in 1..Len(PolicePosts) : PolicePosts[n].id = livePosts[i].id
          /\ livePosts[j].author.verified
          /\ \E n \in 1..Len(PolicePosts) : PolicePosts[n].id = livePosts[j].id

----------------------------------------------------------------------------
(* The synthesizer: the sentences of the summary *)

\* The opening of the first sentence with its link to post p.
ShootingSentence(p) == "Shooting reported at " \o tldrLocation \o ". " \o Mention(p)

\* C24: whenever the summary holds the sentence "confirmed suspect in custody", the
\* handle and URL of that sentence are those of a post of the set other than the
\* post linked in the "Shooting reported at" sentence, and that URL has an entry in
\* the returned citations.
C24_CustodySentenceCitesDistinctPost ==
    (tldr # <<>> /\ Includes(tldr[1].summary, "confirmed suspect in custody")) =>
        \E i \in 1..Len(tldrPosts) :
            /\ Includes(tldr[1].summary,
                        Mention(tldrPosts[i]) \o "confirmed suspect in custody. ")
            /\ ~Includes(tldr[1].summary, ShootingSentence(tldrPosts[i]))
            /\ \E k \in 1..Len(tldr[1].citations) :
                  tldr[1].citations[k].url = tldrPosts[i].url

\* C25: whenever the summary holds the sentence "Shooting reported at <location>.
\* [@handle](url) ", the link is followed by exactly one of "reported fatalities",
\* "reported injuries" and "reported the incident", whatever the casualty clause
\* holds.
C25_ShootingSentenceHasItsPhrase ==
    (tldr # <<>> /\ Includes(tldr[1].summary, "Shooting reported at ")) =>
        \E i \in 1..Len(tldrPosts) :
            \E phrase \in {"reported fatalities", "reported injuries", "reported the incident"} :
                StartsWith(tldr[1].summary, ShootingSentence(tldrPosts[i]) \o phrase \o ".")

\* C26: whenever one of the top posts matches shooting, shots fired, gunfire or
\* active shooter, so that a "what happened" clause exists, the summary opens with
\* the "Shooting reported at <location>." sentence and citation 1 is recorded for
\* the post it links.
C26_ShootingClauseGivesSentence ==
    (tldr # <<>> /\ Clauses(TopPosts(tldrPosts), whatHappenedWords) # <<>>) =>
        \E i \in 1..Len(tldrPosts) :
            /\ StartsWith(tldr[1].summary, ShootingSentence(tldrPosts[i]))
            /\ tldr[1].citations # <<>>
            /\ tldr[1].citations[1] = Citation(1, tldrPosts[i])

---------------------------------------------------------------------------
(* Title: generateTitle, src/server.js:1547-1667 and 1828-1948 *)

IsDigit(c) == c \in Digits

\* \w of a regular expression.
IsWordChar(c) == IsLetter(c) \/ IsDigit(c) \/ c = "_"

\* \b holds before character i of s (i = Len(s) + 1: at the end).
BoundaryAt(s, i) ==
    (i > 1 /\ IsWordChar(CharAt(s, i - 1))) # (i <= Len(s) /\ IsWordChar(CharAt(s, i)))

\* The length of the longest run of characters of a class that starts at character i.
RunAt(s, i, InClass(_)) ==
    Max({ k \in 0..Max({0, Len(s) - i + 1}) : \A j \in i..(i + k - 1) : InClass(CharAt(s, j)) })

\* s holds the lower-case word at character i, whatever its case in s.
HoldsAt(s, i, word) ==
    i + Len(word) - 1 <= Len(s) /\ toLowerCase(SubSeq(s, i, i + Len(word) - 1)) = word

\* (a|b|...) at character i: the first alternative s holds there, as s writes it.
AltAt(s, i, alts) ==
    LET hits == { a \in 1..Len(alts) : HoldsAt(s, i, alts[a]) }
    IN  IF hits = {} THEN "" ELSE SubSeq(s, i, i + Len(alts[Min(hits)]) - 1)

\* (a|b|...)\b at character i.
BoundedAltAt(s, i, alts) ==
    LET hits == { a \in 1..Len(alts) :
                    HoldsAt(s, i, alts[a]) /\ BoundaryAt(s, i + Len(alts[a])) }
    IN  IF hits = {} THEN "" ELSE SubSeq(s, i, i + Len(alts[Min(hits)]) - 1)

\* What the leftmost match of a pattern gives, for MatchAt(s, i) the result of a
\* match that starts at character i ("": no match there).
FirstMatch(s, MatchAt(_, _)) ==
    LET starts == { i \in 1..Len(s) : MatchAt(s, i) # "" }
    IN  IF starts = {} THEN "" ELSE MatchAt(s, Min(starts))

actorWords ==
    <<"man", "woman", "teen", "teenager", "juvenile", "suspect", "shooter", "gunman",
      "individual", "person">>

\* /\b(man|woman|...|person)\b/i at character i: match[1].
ActorWordAt(s, i) == IF BoundaryAt(s, i) THEN BoundedAltAt(s, i, actorWords) ELSE ""

\* /\b(\d+(?:-year-old)?)\s+(man|woman|male|female)\b/i at character i:
\* `${match[1]} ${match[2]}`.
AgedActorAt(s, i) ==
    LET d == RunAt(s, i, IsDigit)
        t == IF HoldsAt(s, i + d, "-year-old") THEN i + d + 9 ELSE i + d
        sp == RunAt(s, t, IsSpace)
        who == BoundedAltAt(s, t + sp, <<"man", "woman", "male", "female">>)
    IN  IF BoundaryAt(s, i) /\ d >= 1 /\ sp >= 1 /\ who # ""
        THEN SubSeq(s, i, t - 1) \o " " \o who ELSE ""

UpperChar(c) == IF c \in LowerLetters THEN CHOOSE u \in UpperLetters : LowerOf[u] = c ELSE c

\* actor.charAt(0).toUpperCase() + actor.slice(1)
Capitalize(s) == IF s = "" THEN "" ELSE UpperChar(CharAt(s, 1)) \o SubSeq(s, 2, Len(s))

\* The actor a post text gives: the first of the two patterns that matches.
ActorIn(text) ==
    IF FirstMatch(text, ActorWordAt) # "" THEN Capitalize(FirstMatch(text, ActorWordAt))
    ELSE Capitalize(FirstMatch(text, AgedActorAt))

\* The action a lower-cased post text gives.
ActionIn(textLower) ==
    IF Includes(textLower, "shooting") \/ Includes(textLower, "shots fired")
         \/ Includes(textLower, "shot")
    THEN "shoots"
    ELSE IF Includes(textLower, "stabbing") \/ Includes(textLower, "stabbed") THEN "stabs"
    ELSE IF Includes(textLower, "arrested") THEN "arrested at"
    ELSE IF Includes(textLower, "assault") THEN "assaults"
    ELSE IF Includes(textLower, "attack") THEN "attacks"
    ELSE ""

harmVerbs == <<"shot", "killed", "injured", "wounded">>

countedNouns == <<"people", "person", "victim", "individual">>

\* `${match[1]} ${match[2]}${match[1] !== '1' && !match[2].endsWith('s') ? 's' : ''}`
CountedVictims(count, noun) ==
    count \o " " \o noun \o (IF count # "1" /\ ~EndsWith(noun, "s") THEN "s" ELSE "")

\* (\d+)\s+(a|b|...) at character i, as the victims it gives.
CountAt(s, i, nouns) ==
    LET d == RunAt(s, i, IsDigit)
        sp == RunAt(s, i + d, IsSpace)
        noun == AltAt(s, i + d + sp, nouns)
    IN  IF d >= 1 /\ sp >= 1 /\ noun # ""
        THEN CountedVictims(SubSeq(s, i, i + d - 1), noun) ELSE ""

\* /(?:shot|killed|injured|wounded)\s+(\d+)\s+(people|person|victim|individual)s?/i
VerbCountAt(s, i) ==
    LET verb == AltAt(s, i, harmVerbs)
        sp == RunAt(s, i + Len(verb), IsSpace)
    IN  IF verb # "" /\ sp >= 1 THEN CountAt(s, i + Len(verb) + sp, countedNouns) ELSE ""

\* /(\d+)\s+(people|person|victim|individual)s?\s+(?:shot|killed|injured|wounded)/i
CountVerbAt(s, i) ==
    LET d == RunAt(s, i, IsDigit)
        sp == RunAt(s, i + d, IsSpace)
        noun == AltAt(s, i + d + sp, countedNouns)
        e == i + d + sp + Len(noun)
        f == IF HoldsAt(s, e, "s") THEN e + 1 ELSE e
        sp2 == RunAt(s, f, IsSpace)
    IN  IF d >= 1 /\ sp >= 1 /\ noun # "" /\ sp2 >= 1 /\ AltAt(s, f + sp2, harmVerbs) # ""
        THEN CountedVictims(SubSeq(s, i, i + d - 1), noun) ELSE ""

\* /(?:shot|killed|injured|wounded)\s+(?:a\s+)?(man|woman|teen|person|individual)/i:
\* match[1].toLowerCase()
VerbPersonAt(s, i) ==
    LET persons == <<"man", "woman", "teen", "person", "individual">>
        verb == AltAt(s, i, harmVerbs)
        sp == RunAt(s, i + Len(verb), IsSpace)
        k == i + Len(verb) + sp
        sp2 == RunAt(s, k + 1, IsSpace)
        afterA == IF HoldsAt(s, k, "a") /\ sp2 >= 1 THEN AltAt(s, k + 1 + sp2, persons) ELSE ""
    IN  IF verb = "" \/ sp = 0 THEN ""
        ELSE IF afterA # "" THEN toLowerCase(afterA)
        ELSE toLowerCase(AltAt(s, k, persons))

\* /shooting\s+(?:at\s+)?(\d+)\s+(people|victim)/i
ShootingCountAt(s, i) ==
    LET sp == RunAt(s, i + 8, IsSpace)
        k == i + 8 + sp
        sp2 == RunAt(s, k + 2, IsSpace)
        afterAt == IF HoldsAt(s, k, "at") /\ sp2 >= 1
                   THEN CountAt(s, k + 2 + sp2, <<"people", "victim">>) ELSE ""
    IN  IF ~HoldsAt(s, i, "shooting") \/ sp = 0 THEN ""
        ELSE IF afterAt # "" THEN afterAt
        ELSE CountAt(s, k, <<"people", "victim">>)

\* The victims a post text gives: the first of the four patterns that matches.
VictimsIn(text) ==
    IF FirstMatch(text, VerbCountAt) # "" THEN FirstMatch(text, VerbCountAt)
    ELSE IF FirstMatch(text, CountVerbAt) # "" THEN FirstMatch(text, CountVerbAt)
    ELSE IF FirstMatch(text, VerbPersonAt) # "" THEN FirstMatch(text, VerbPersonAt)
    ELSE FirstMatch(text, ShootingCountAt)

\* The comparator engagementB - engagementA is negative: a goes before b.
MoreEngaged(a, b) ==
    (b.engagement.likes + b.engagement.retweets)
        - (a.engagement.likes + a.engagement.retweets) < 0

\* [...posts].sort(...), a stable sort.
SortByEngagement(ps) ==
    [k \in 1..Len(ps) |->
        ps[CHOOSE i \in 1..Len(ps) :
              k = 1 + Cardinality({ j \in 1..Len(ps) :
                                      \/ MoreEngaged(ps[j], ps[i])
                                      \/ j < i /\ ~MoreEngaged(ps[i], ps[j]) })]]

\* for (const post of sortedPosts) { ... if (actor && action) break; } from post i
\* on, with what the posts before it gave.
RECURSIVE TitleScan(_, _, _)
TitleScan(sortedPosts, i, found) ==
    IF i > Len(sortedPosts) \/ (found.actor # "" /\ found.action # "") THEN found
    ELSE TitleScan(sortedPosts, i + 1,
            [actor |-> IF found.actor # "" THEN found.actor
                       ELSE ActorIn(sortedPosts[i].text),
             action |-> IF found.action # "" THEN found.action
                        ELSE ActionIn(toLowerCase(sortedPosts[i].text)),
             victims |-> IF found.victims # "" THEN found.victims
                         ELSE VictimsIn(sortedPosts[i].text)])

NothingFound == [actor |-> "", action |-> "", victims |-> ""]

\* actionMap[action] || 'Incident'
ActionNoun(action) ==
    IF action = "shoots" THEN "Shooting"
    ELSE IF action = "stabs" THEN "Stabbing"
    ELSE IF action = "assaults" THEN "Assault"
    ELSE IF action = "attacks" THEN "Attack"
    ELSE IF action = "arrested at" THEN "Arrest"
    ELSE "Incident"

\* incidentType of the final fallback, from the lower-cased text of the top post.
TopPostType(text) ==
    IF Includes(text, "shooting") \/ Includes(text, "shots fired") THEN "Shooting"
    ELSE IF Includes(text, "stabbing") THEN "Stabbing"
    ELSE IF Includes(text, "arrest") THEN "Arrest"
    ELSE "Incident"

\* The title built from what the scan found.
ComposeTitle(found, sortedPosts, incidentLocation) ==
    IF found.actor # "" /\ found.action # ""
    THEN found.actor
            \o (IF found.action = "arrested at" THEN " " \o found.action
                ELSE IF found.victims # ""
                THEN " " \o found.action \o " " \o found.victims \o " at"
                ELSE " " \o found.action \o " at")
            \o " " \o incidentLocation
    ELSE IF found.action # "" THEN ActionNoun(found.action) \o " at " \o incidentLocation
    ELSE TopPostType(toLowerCase(sortedPosts[1].text)) \o " at " \o incidentLocation

\* generateTitle of the custom-query path, src/server.js:1547-1667.
generateTitle(ps, incidentLocation) ==
    ComposeTitle(TitleScan(SortByEngagement(ps), 1, NothingFound), SortByEngagement(ps),
                 incidentLocation)

\* Title composition of the copy of generateTitle on the default path,
\* src/server.js:1909-1948.
ComposeTitleDefault(found, sortedPosts, incidentLocation) ==
    IF found.actor # "" /\ found.action # ""
    THEN found.actor
            \o (IF found.action = "arrested at" THEN " " \o found.action
                ELSE IF found.victims # ""
                THEN " " \o found.action \o " " \o found.victims \o " at"
                ELSE " " \o found.action \o " at")
            \o " " \o incidentLocation
    ELSE IF found.action # ""
    THEN (IF found.action = "shoots" THEN "Shooting"
          ELSE IF found.action = "stabs" THEN "Stabbing"
          ELSE IF found.action = "assaults" THEN "Assault"
          ELSE IF found.action = "attacks" THEN "Attack"
          ELSE IF found.action = "arrested at" THEN "Arrest"
          ELSE "Incident") \o " at " \o incidentLocation
    ELSE LET text == toLowerCase(sortedPosts[1].text)
         IN  (IF Includes(text, "shooting") \/ Includes(text, "shots fired") THEN "Shooting"
              ELSE IF Includes(text, "stabbing") THEN "Stabbing"
              ELSE IF Includes(text, "arrest") THEN "Arrest"
              ELSE "Incident") \o " at " \o incidentLocation

\* A title that never names the victims.
generateTitleWithoutVictims(ps, incidentLocation) ==
    ComposeTitleDefault([TitleScan(SortByEngagement(ps), 1, NothingFound)
                            EXCEPT !.victims = ""],
                        SortByEngagement(ps), incidentLocation)

\* generateTitle of the default path, src/server.js:1828-1948.
generateTitleDefault(ps, incidentLocation) ==
    ComposeTitleDefault(TitleScan(SortByEngagement(ps), 1, NothingFound),
                        SortByEngagement(ps), incidentLocation)

---------------------------------------------------------------------------
(* Coordinates: getCoordinates, src/server.js:679-712; degrees times 10000 *)

locationMap ==
    <<[key |-> "stanford", lat |-> 374275, lng |-> -1221697],
      [key |-> "palo alto", lat |-> 374419, lng |-> -1221430],
      [key |-> "valley fair", lat |-> 373230, lng |-> -1219465],
      [key |-> "westfield", lat |-> 373230, lng |-> -1219465],
      [key |-> "westfield valley fair", lat |-> 373230, lng |-> -1219465],
      [key |-> "san jose", lat |-> 373382, lng |-> -1218863],
      [key |-> "menlo park", lat |-> 374538, lng |-> -1221821],
      [key |-> "mountain view", lat |-> 373861, lng |-> -1220839],
      [key |-> "redwood city", lat |-> 374852, lng |-> -1222364],
      [key |-> "east palo alto", lat |-> 374688, lng |-> -1221411],
      [key |-> "santa clara", lat |-> 373541, lng |-> -1219552],
      [key |-> "cupertino", lat |-> 373230, lng |-> -1220322],
      [key |-> "sunnyvale", lat |-> 373688, lng |-> -1220363],
      [key |-> "fremont", lat |-> 375483, lng |-> -1219886],
      [key |-> "milpitas", lat |-> 374283, lng |-> -1219066],
      [key |-> "oakland", lat |-> 378044, lng |-> -1222711],
      [key |-> "san francisco", lat |-> 377749, lng |-> -1224194],
      [key |-> "stockton", lat |-> 379577, lng |-> -1212908],
      [key |-> "outer richmond", lat |-> 377715, lng |-> -1225045],
      [key |-> "skyline high school", lat |-> 377894, lng |-> -1221614],
      [key |-> "laney college", lat |-> 377974, lng |-> -1222653]>>

getCoordinates(location) ==
    LET hits == { k \in 1..Len(locationMap) :
                    Includes(toLowerCase(location), locationMap[k].key) }
    IN  IF hits = {} THEN [lat |-> 374275, lng |-> -1221697]
        ELSE [lat |-> locationMap[Min(hits)].lat, lng |-> locationMap[Min(hits)].lng]

---------------------------------------------------------------------------
(* The forEach callbacks of fetchRealTimeIncidents on an incident group:    *)
(* src/server.js:1526-1692 (custom query) and 1799-1977 (default)          *)

\* sentiment.confidence > 0.7, on the pair numerator, denominator.
ConfidenceOver70(confidence) == confidence.num * 10 > 7 * confidence.den

\* reliabilityNote of the custom-query path.
ReliabilityNote(sentiment) ==
    IF sentiment.verifiedCount > 0
    THEN "Verified by " \o ToString(sentiment.verifiedCount) \o " official sources. "
    ELSE IF ConfidenceOver70(sentiment.confidence)
    THEN "High confidence from multiple sources. "
    ELSE ""

\* description of the incident of the custom-query path.
LiveDescription(reliabilityNote, count, totalEngagement) ==
    reliabilityNote \o "Real-time event detected from " \o ToString(count)
        \o " X posts with "
        \o ToString(totalEngagement.totalLikes + totalEngagement.totalRetweets)
        \o " total engagements."

\* The callback of the custom-query path on a group: the incidents it pushes.
CustomCallback(id, g) ==
    IF IsSkipped(g) THEN <<>>
    ELSE <<[id |-> id,
            title |-> generateTitle(g.posts, g.location),
            severity |-> determineSeverity(g.posts),
            location |-> g.location,
            timestamp |-> MostRecent(g.posts),
            description |-> LiveDescription(ReliabilityNote(analyzeSentiment(g.posts)),
                                            Len(g.posts),
                                            calculateTotalEngagement(g.posts)),
            coordinates |-> getCoordinates(g.location),
            discussion |->
               [shooterStatus |-> LiveShooterStatus(determineSeverity(g.posts)),
                userSummary |-> generateTLDR(g.posts, g.location).summary,
                tldrCitations |-> generateTLDR(g.posts, g.location).citations,
                sources |-> g.posts,
                totalEngagement |-> calculateTotalEngagement(g.posts)]]>>

\* isReliable of the default path.
IsReliableDefault(sentiment, count) ==
    /\ sentiment.sentiment # "negative"
    /\ (sentiment.verifiedCount > 0 \/ sentiment.confidence.num * 10 > 6 * sentiment.confidence.den
          \/ count >= 1)

\* The incident of the default path.
DefaultIncident(id, ps, location, sentiment, severity, totalEngagement, tldrResult) ==
    [id |-> id,
     title |-> generateTitleDefault(ps, location),
     severity |-> severity,
     location |-> location,
     timestamp |-> Timestamp(Max({ ps[i].timestamp.t : i \in 1..Len(ps) })),
     description |->
        (IF sentiment.verifiedCount > 0
         THEN "Verified by " \o ToString(sentiment.verifiedCount) \o " official sources. "
         ELSE IF sentiment.confidence.num * 10 > 7 * sentiment.confidence.den
         THEN "High confidence from multiple sources. "
         ELSE "")
           \o "Real-time event detected from " \o ToString(Len(ps)) \o " X posts with "
           \o ToString(totalEngagement.totalLikes + totalEngagement.totalRetweets)
           \o " total engagements.",
     coordinates |-> getCoordinates(location),
     discussion |->
        [shooterStatus |-> IF severity = "critical" THEN "Active Investigation"
                           ELSE IF severity = "high" THEN "Monitoring" ELSE "Verified",
         userSummary |-> tldrResult.summary,
         tldrCitations |-> tldrResult.citations,
         sources |-> ps,
         totalEngagement |-> totalEngagement]]

\* The callback of the default path on a group: the incidents it pushes.
DefaultCallback(id, g) ==
    IF ~IsReliableDefault(analyzeSentiment(g.posts), Len(g.posts)) /\ Len(g.posts) < 2
    THEN <<>>
    ELSE <<DefaultIncident(id, g.posts, g.location, analyzeSentiment(g.posts),
                           determineSeverity(g.posts), calculateTotalEngagement(g.posts),
                           generateTLDR(g.posts, g.location))>>

\* The largest batch the incident groups are anchored from.
MaxGroup == 3

\* The posts of the batches: an actor with victims, an arrest without the word
\* "arrested", an action without an actor, neither, an aged actor, a denial.
GroupPool ==
    {MakePost("201", "alice", FALSE, "Man shot 2 people at Stanford University",
              Hours(300), Engagement(50, 0, 0, 0, 0)),
     MakePost("202", "SJPD", TRUE, "Police make arrest near Stanford University",
              Hours(301), Engagement(80, 0, 0, 0, 0)),
     MakePost("203", "bob", FALSE, "Stabbing reported at Santana Row",
              Hours(300), Engagement(20, 0, 0, 0, 0)),
     MakePost("204", "carol", FALSE, "Crowds gather at Santana Row",
              Hours(301), Engagement(5, 0, 0, 0, 0)),
     MakePost("205", "erin", FALSE, "25-year-old male arrested at Santana Row",
              Hours(302), Engagement(0, 10, 0, 0, 0)),
     MakePost("206", "frank", FALSE, "Gunman shot a woman at Santana Row",
              Hours(302), Engagement(30, 0, 0, 0, 0)),
     MakePost("207", "dave", FALSE, "Santana Row shooting was a hoax",
              Hours(303), Engagement(5, 0, 0, 0, 0))}

\* uuidv4() returns a fresh identifier.
Uuids == {"uuid-a", "uuid-b"}

\* A group is one of the clusters the anchoring engine returns for a batch; no
\* callback has run on it.
InitGroup ==
    /\ \E n \in 1..MaxGroup : \E batch \in [1..n -> GroupPool] :
          \E k \in 1..Len(anchorIncidentsToLocations(batch)) :
             incidentGroup = anchorIncidentsToLocations(batch)[k]
    /\ pathIncidents = [custom |-> <<>>, default |-> <<>>]
    /\ IdleAnchor /\ IdleTLDR /\ IdleFetch /\ IdleScore /\ IdleLoc

\* The callback of the custom-query path runs on the group.
RunCustomCallback ==
    /\ pathIncidents.custom = <<>>
    /\ \E id \in Uuids :
          pathIncidents' =
             [pathIncidents EXCEPT !.custom = <<CustomCallback(id, incidentGroup)>>]
    /\ UNCHANGED <<incidentGroup, anchorVars, tldrVars, fetchVars, scoreVars, locVars>>

\* The callback of the default path runs on the group.
RunDefaultCallback ==
    /\ pathIncidents.default = <<>>
    /\ \E id \in Uuids :
          pathIncidents' =
             [pathIncidents EXCEPT !.default = <<DefaultCallback(id, incidentGroup)>>]
    /\ UNCHANGED <<incidentGroup, anchorVars, tldrVars, fetchVars, scoreVars, locVars>>

NextGroup == RunCustomCallback \/ RunDefaultCallback

SpecGroup == InitGroup /\ [][NextGroup]_vars

---------------------------------------------------------------------------
(* Properties of the title and of the two callbacks *)

Paths == {"custom", "default"}

\* The incidents array a path's callback left for the group (<<>>: none, or not run).
PushedBy(path) == IF pathIncidents[path] = <<>> THEN <<>> ELSE pathIncidents[path][1]

BuiltIncidents == { PushedBy(path)[1] : path \in { p \in Paths : PushedBy(p) # <<>> } }

\* An actor phrase is found in a post of the cluster.
ActorFound(ps) == \E i \in 1..Len(ps) : ActorIn(ps[i].text) # ""

\* An action keyword is found in a post of the cluster.
ActionFound(ps) == \E i \in 1..Len(ps) : ActionIn(toLowerCase(ps[i].text)) # ""

ActionNouns == {"Shooting", "Stabbing", "Assault", "Attack", "Arrest"}

\* C27: when neither an actor phrase nor an action keyword is found in any post of the
\* cluster the title is exactly "Incident at <location>"; when an action but no actor
\* is found it is "<ActionNoun> at <location>" with ActionNoun one of Shooting,
\* Stabbing, Assault, Attack, Arrest; victims appear in the title only when both an
\* actor and an action were found.
C27_TitleFallbacks ==
    \A incident \in BuiltIncidents :
        LET ps == incident.discussion.sources
            location == incident.location
        IN  /\ (~ActorFound(ps) /\ ~ActionFound(ps))
                  => incident.title = "Incident at " \o location
            /\ (ActionFound(ps) /\ ~ActorFound(ps))
                  => incident.title \in { noun \o " at " \o location : noun \in ActionNouns }
            /\ ~(ActorFound(ps) /\ ActionFound(ps))
                  => incident.title
                        \in { noun \o " at " \o location : noun \in ActionNouns \cup {"Incident"} }

IncidentFields ==
    {"title", "severity", "location", "timestamp", "description", "coordinates", "discussion"}

\* C28: for the same cluster the callback of the custom-query path and the callback of
\* the default path apply the same reliability gate, and the incidents they build
\* agree on title, severity, location, timestamp, description, coordinates, status
\* label, summary, citations, sources and engagement totals; only the ids may differ.
C28_PathsBuildTheSameIncident ==
    (pathIncidents # <<>> /\ pathIncidents.custom # <<>> /\ pathIncidents.default # <<>>)
        => /\ Len(PushedBy("custom")) = Len(PushedBy("default"))
           /\ \A k \in 1..Len(PushedBy("custom")) : \A f \in IncidentFields :
                 PushedBy("custom")[k][f] = PushedBy("default")[k][f]

\* Both callbacks ran on a cluster of several posts that names an actor, an action and
\* victims, and built incidents with different ids.
C28_Witness ==
    /\ pathIncidents # <<>>
    /\ PushedBy("custom") # <<>> /\ PushedBy("default") # <<>>
    /\ PushedBy("custom")[1].id # PushedBy("default")[1].id
    /\ Len(incidentGroup.posts) >= 2
    /\ PushedBy("default")[1].title = "Man shoots 2 peoples at Stanford University"

=============================================================================
